---------------------------- MODULE Spec2Model ----------------------------
(***************************************************************************)
(* Model of antongulenko/stream-statistics-client.                         *)
(*                                                                         *)
(* SpecPool    : StreamStatisticsCollector (src/main.go): the resize lock, *)
(*               the list of running streams, the RunningStream tasks and  *)
(*               the gauges and counters they feed.                        *)
(* SpecCounter : IncrementedCounter (src/unnamed/part_000) with concurrent *)
(*               Increment calls and the periodic ComputeDiff.             *)
(* SpecTasks   : N tasks that each call Increment(1) M times.              *)
(* SpecAvg     : AveragingCounter (src/unnamed/part_000).                  *)
(* SpecWorker, SpecWorkerFair, SpecPoolFair : the collector with the tasks *)
(*               of its running streams, without and with fairness.        *)
(* SpecSelect, SpecRegistry, SpecStreams : the endpoint registry and the   *)
(*               handlers of /endpoints and /streams (src/rest-api.go).    *)
(* SpecParse, SpecOpen : ParseURLArgument and OpenStream on an endpoint    *)
(*               (src/rtmp-stream.go).                                     *)
(* SpecSampler : DistributionSampler (src/random-distribution-helpers.go). *)
(*                                                                         *)
(* Each specification moves its own variables and leaves the others at     *)
(* their initial values.                                                   *)
(***************************************************************************)
EXTENDS Integers, Sequences, FiniteSets, TLC

(***************************************************************************)
(* Bounds of the model.                                                    *)
(***************************************************************************)
\* largest pool size a caller asks for; also the number of worker slots
MaxTarget == 2
\* largest pool size requested in the behaviours checked for termination
FairTarget == 1
\* number of OpenStream calls made on one endpoint
MaxOpens == 3
\* number of control-surface callers of SetNumberOfStreams (besides main)
NumApi == 1
\* OpenStream calls that reach the network (succeed or fail) before the
\* registry runs empty and every further call returns ErrorNoURLs
MaxAttempts == 2
\* width in bits of the model's IncrementedCounter (uint64 in the program)
CounterBits == 3
\* largest amount of one Increment call
MaxInc == 2
\* largest elapsed time, in seconds, between two ComputeDiff calls
MaxSecs == 2
\* SpecTasks: number of tasks and Increment(1) calls per task
NTasks == 2
MIncs == 3
\* AveragingCounter: Add calls between two ComputeAvg calls, largest value added
MaxAdds == 3
MaxVal == 1
\* SpecAvgLock: number of tasks that call Add concurrently
NAdders == 2
\* SpecSelect, SpecRegistry: tasks that call nextEndpoint, nextEndpoint calls
\* in all, command-line arguments (MaxArgs in SpecSelect, MaxArgsServed in
\* SpecRegistry), requests to /endpoints and /streams, lines of a request body
NSel == 2
MaxSel == 2
MaxArgs == 2
MaxArgsServed == 1
MaxReqs == 1
MaxLines == 2
\* SpecStreams: requests to /streams handled concurrently, requests in all
NumReq == 2
MaxStreamReqs == 3

VARIABLES
    \* ---- StreamStatisticsCollector (src/main.go:81-106)
    stopper,              \* c.stopper: TRUE once Stop() was called
    streamsLock,          \* c.streamsLock: the set of callers holding it
    runningStreams,       \* c.runningStreams: sequence of worker slots
    openConnections,      \* TwoWayCounter
    receivingConnections, \* TwoWayCounter
    pixels,               \* TwoWayCounter
    opened,               \* IncrementedCounter
    closed,               \* IncrementedCounter
    errors,               \* IncrementedCounter
    \* ---- callers of SetNumberOfStreams: position and locals
    cpc,                  \* caller -> position
    num,                  \* caller -> parameter num (after clamping)
    toClose,              \* caller -> rest of toClose still to be stopped
    missing,              \* caller -> streams still to be spawned
    removed,              \* caller -> the streams of its toClose (main.go:129)
    \* ---- RunningStream (src/main.go:210-215) and its task
    wpc,                  \* slot -> position of the task ("none": no object)
    wstopper,             \* slot -> c.stopper of the RunningStream
    cstream,              \* slot -> c.stream: "nil", "cur" or "old"
    conn,                 \* slot -> connection of the latest opened stream
    res,                  \* slot -> result of the last OpenStream call
    received,             \* slot -> local variable received
    wpixels,              \* slot -> local variable pixels
    attempts,             \* OpenStream calls that reached the network
    \* ---- history (not program state)
    hreq,                 \* caller -> target as passed by the caller
    hlen,                 \* caller -> len(runningStreams) when the lock was taken
    hstopped,             \* caller -> stop flag was set when the call was issued
    hskip,                \* caller -> the call returned at line 138
    \* ---- IncrementedCounter (src/unnamed/part_000:24-48)
    current,              \* c.current
    previous,             \* c.previous
    ireg,                 \* task -> value loaded by an Increment that is not atomic
    done,                 \* task -> Increment calls completed (SpecTasks)
    tpc,                  \* position of the task calling ComputeDiff
    tcur,                 \* its local variable current
    ret,                  \* what the latest ComputeDiff returned
    \* ---- history of the counter (not program state)
    hsum,                 \* sum of the Increment amounts since the previous load
    htotal,               \* sum of all Increment amounts
    hdelta,               \* delta computed by the latest ComputeDiff
    hexpect,              \* hsum at the load of the latest ComputeDiff
    hdeltas,              \* sum of all deltas computed so far
    hcalls,               \* number of ComputeDiff calls completed
    hbusy,                \* a task had Increment calls left at the latest load
    \* ---- AveragingCounter (src/unnamed/part_000:50-74)
    count,                \* avg.count
    value,                \* avg.value
    apc,                  \* position of the task calling ComputeAvg
    lcount,               \* its local variable count
    lvalue,               \* its local variable value
    avg,                  \* what the latest ComputeAvg returned, as a fraction
    \* ---- history of the averaging counter (not program state)
    hadded,               \* values added since the latest read-and-reset
    htaken,               \* values the latest read-and-reset covered
    hreturns,             \* number of ComputeAvg calls completed
    \* ---- AveragingCounter with concurrent Add calls (SpecAvgLock)
    lock,                 \* avg.lock: its holder, "free" when unlocked
    addpc,                \* adder -> position inside Add
    addval,               \* adder -> parameter val
    hallc,                \* history: number of values added so far
    hallv,                \* history: sum of the values added so far
    hresc,                \* history: sum of the counts all read-and-resets took
    hresv,                \* history: sum of the values all read-and-resets took
    \* ---- handleStreams (src/rest-api.go:60-81), SpecStreams
    qpc,                  \* request -> position of its handler
    qnum,                 \* request -> local variable num
    previousNum,          \* request -> local variable previousNum
    qresp,                \* request -> the two numbers of the response it wrote
    nq,                   \* history: requests started
    hbefore,              \* history: request -> len(runningStreams) when its resize began
    hafter,               \* history: request -> len(runningStreams) its resize produced
    \* ---- RtmpStreamFactory (src/rtmp-stream.go:52-57): the endpoint registry
    hosts,                \* f.hosts: sequence of host names
    hostURLs,             \* host name -> the endpoints held under it
    hostCounter,          \* f.hostCounter
    \* ---- do_main (src/main.go:48-56)
    phase,                \* "args" until do_main has read its arguments, then "serving"
    \* ---- a task inside nextEndpoint (src/rtmp-stream.go:82-103)
    spc,                  \* selector -> position
    si,                   \* selector -> loop variable i
    snext,                \* selector -> nextHost
    sreg,                 \* selector -> value of f.hostCounter loaded by f.hostCounter++
    sres,                 \* selector -> what the latest nextEndpoint returned
    \* ---- the handler of /endpoints (src/rest-api.go:24-58)
    rpc,                  \* position of the handler
    rmethod,              \* req.Method
    rlines,               \* lines of the request still to be handled
    rhost,                \* host of the entry being added
    rurls,                \* urls of the entry being added
    rstatus,              \* status of the latest response
    rreport,              \* what the handler wrote for each entry so far
    \* ---- history of the registry (not program state)
    nsel,                 \* nextEndpoint calls started
    nreq,                 \* requests started
    hpicks,               \* hosts of the endpoints returned by the calls since the
                          \* registry was last written, in the order of their return
    hstores,              \* f.hostCounter++ statements completed
    hmut,                 \* selector -> the registry was written during its call
    hpre,                 \* the registry when the current request began
    hall,                 \* all lines of the current request
    \* ---- a call of ParseURLArgument (src/rtmp-stream.go:204-272), SpecParse
    urlArg,               \* the argument of the latest call
    parsed,               \* host, endpoints and error the latest call returned
    \* ---- DistributionSampler (src/random-distribution-helpers.go:58-129), SpecSampler
    distribution,         \* distSampler.distribution
    setArg,               \* the value the latest Set was called with
    setErr,               \* whether the latest Set returned an error
    sample,               \* what the latest distribution.Sample() returned
    hdist,                \* history: distSampler.distribution before the latest Set
    \* ---- an endpoint of the registry and the OpenStream calls on it, SpecOpen
    stored,               \* the RtmpEndpoint the registry holds: url and pixels
    dialed,               \* outcome of the latest OpenStream call on it
    nopen,                \* OpenStream calls made on it
    hstored               \* history: the endpoint as ParseURLArgument stored it

poolVars == <<stopper, streamsLock, runningStreams, openConnections,
              receivingConnections, pixels, opened, closed, errors,
              cpc, num, toClose, missing, removed,
              wpc, wstopper, cstream, conn, res, received, wpixels,
              attempts, hreq, hlen, hstopped, hskip>>

colCounters == <<openConnections, receivingConnections, pixels, opened, closed, errors>>
callerVars == <<cpc, num, toClose, missing, removed>>
workerVars == <<wpc, wstopper, cstream, conn, res, received, wpixels>>
histVars == <<hreq, hlen, hstopped, hskip>>

ctrVars == <<current, previous, ireg, done, tpc, tcur, ret,
             hsum, htotal, hdelta, hexpect, hdeltas, hcalls, hbusy>>

avgVars == <<count, value, apc, lcount, lvalue, avg, hadded, htaken, hreturns>>

lkVars == <<lock, addpc, addval, hallc, hallv, hresc, hresv>>

regVars == <<hosts, hostURLs, hostCounter, phase, spc, si, snext, sreg, sres,
             rpc, rmethod, rlines, rhost, rurls, rstatus, rreport,
             nsel, nreq, hpicks, hstores, hmut, hpre, hall>>

strVars == <<qpc, qnum, previousNum, qresp, nq, hbefore, hafter>>

prsVars == <<urlArg, parsed>>

smpVars == <<distribution, setArg, setErr, sample, hdist>>

opnVars == <<stored, dialed, nopen, hstored>>

vars == <<poolVars, ctrVars, avgVars, lkVars, regVars, strVars, prsVars, smpVars,
          opnVars>>

Main == 0
Api == 1..NumApi
Callers == {Main} \cup Api
Slots == 1..MaxTarget
Targets == (0 - 1)..MaxTarget
\* pixel metadata of the endpoints a stream may be opened on (RtmpEndpoint.pixels)
PixelChoices == {0, 2}

Tasks == 1..NTasks
Adders == 1..NAdders
Selectors == 1..NSel
Requests == 1..NumReq
\* math.MaxUint64 of the program, at the model's width
MaxUint == 2^CounterBits - 1
Modulus == MaxUint + 1

\* if num < 0 { num = 0 } is Max(num, 0), main.go:124-126
Max(a, b) == IF a > b THEN a ELSE b

(***************************************************************************)
(* StreamStatisticsCollector: state after Start() created the stop channel *)
(* (src/main.go:112-116) and before it calls SetNumberOfStreams.           *)
(***************************************************************************)
InitPool ==
    /\ stopper = FALSE
    /\ streamsLock = {}
    /\ runningStreams = <<>>
    /\ openConnections = 0
    /\ receivingConnections = 0
    /\ pixels = 0
    /\ opened = 0
    /\ closed = 0
    /\ errors = 0
    /\ cpc = [p \in Callers |-> IF p = Main THEN "start" ELSE "idle"]
    /\ num = [p \in Callers |-> 0]
    /\ toClose = [p \in Callers |-> <<>>]
    /\ missing = [p \in Callers |-> 0]
    /\ wpc = [w \in Slots |-> "none"]
    /\ wstopper = [w \in Slots |-> FALSE]
    /\ cstream = [w \in Slots |-> "nil"]
    /\ conn = [w \in Slots |-> "none"]
    /\ res = [w \in Slots |-> "none"]
    /\ received = [w \in Slots |-> FALSE]
    /\ wpixels = [w \in Slots |-> 0]
    /\ attempts = 0
    /\ hreq = [p \in Callers |-> 0]
    /\ hlen = [p \in Callers |-> 0]
    /\ hstopped = [p \in Callers |-> FALSE]
    /\ removed = [p \in Callers |-> {}]
    /\ hskip = [p \in Callers |-> FALSE]

(***************************************************************************)
(* Callers of SetNumberOfStreams.                                          *)
(***************************************************************************)
\* Start(): c.SetNumberOfStreams(c.InitialStreams), main.go:117
StartCall(n) ==
    /\ cpc[Main] = "start"
    /\ cpc' = [cpc EXCEPT ![Main] = "lock"]
    /\ num' = [num EXCEPT ![Main] = n]
    /\ hreq' = [hreq EXCEPT ![Main] = n]
    /\ hstopped' = [hstopped EXCEPT ![Main] = stopper]
    /\ UNCHANGED <<stopper, streamsLock, runningStreams, colCounters, toClose,
                   missing, removed, workerVars, attempts, hlen, hskip>>
    /\ UNCHANGED <<ctrVars, avgVars, lkVars, regVars, strVars, prsVars, smpVars, opnVars>>

\* handleStreams: api.Col.SetNumberOfStreams(num), rest-api.go:78
ApiCall(p, n) ==
    /\ p \in Api
    /\ cpc[p] = "idle"
    /\ cpc' = [cpc EXCEPT ![p] = "lock"]
    /\ num' = [num EXCEPT ![p] = n]
    /\ hreq' = [hreq EXCEPT ![p] = n]
    /\ hstopped' = [hstopped EXCEPT ![p] = stopper]
    /\ UNCHANGED <<stopper, streamsLock, runningStreams, colCounters, toClose,
                   missing, removed, workerVars, attempts, hlen, hskip>>
    /\ UNCHANGED <<ctrVars, avgVars, lkVars, regVars, strVars, prsVars, smpVars, opnVars>>

\* Close(): c.stopper.Stop(), then c.SetNumberOfStreams(0), main.go:150-153
Close ==
    /\ cpc[Main] = "running"
    /\ stopper' = TRUE
    /\ cpc' = [cpc EXCEPT ![Main] = "lock"]
    /\ num' = [num EXCEPT ![Main] = 0]
    /\ hreq' = [hreq EXCEPT ![Main] = 0]
    /\ hstopped' = [hstopped EXCEPT ![Main] = TRUE]
    /\ UNCHANGED <<streamsLock, runningStreams, colCounters, toClose,
                   missing, removed, workerVars, attempts, hlen, hskip>>
    /\ UNCHANGED <<ctrVars, avgVars, lkVars, regVars, strVars, prsVars, smpVars, opnVars>>

\* a Lock() that does not wait for the mutex
LockFreeAlways(p) == TRUE

\* c.streamsLock.Lock() succeeds only on a free mutex, main.go:122
LockFree(p) == streamsLock = {}

\* the list main.go:130 leaves although the truncation was forgotten
KeptAll(n) == runningStreams

\* c.runningStreams = c.runningStreams[:num], main.go:130
Kept(n) == SubSeq(runningStreams, 1, n)

\* main.go:122-135: take the lock, clamp num, cut the excess streams off the list
Lock(p) ==
    /\ cpc[p] = "lock"
    /\ LockFree(p)
    /\ streamsLock' = streamsLock \cup {p}
    /\ LET n == Max(num[p], 0)
           len == Len(runningStreams)
       IN  /\ num' = [num EXCEPT ![p] = n]
           /\ hlen' = [hlen EXCEPT ![p] = len]
           /\ IF len > n
              THEN /\ toClose' = [toClose EXCEPT ![p] = SubSeq(runningStreams, n + 1, len)]
                   /\ runningStreams' = Kept(n)
                   /\ removed' = [removed EXCEPT
                                     ![p] = {runningStreams[i] : i \in (n + 1)..len}]
                   /\ cpc' = [cpc EXCEPT ![p] = "stop_signal"]
              ELSE /\ UNCHANGED <<toClose, runningStreams, removed>>
                   /\ cpc' = [cpc EXCEPT ![p] = IF len < n THEN "check" ELSE "return"]
    /\ UNCHANGED <<stopper, colCounters, missing, workerVars, attempts,
                   hreq, hstopped, hskip>>
    /\ UNCHANGED <<ctrVars, avgVars, lkVars, regVars, strVars, prsVars, smpVars, opnVars>>

\* RunningStream.stop(): c.stopper.Stop(), main.go:231
StopSignal(p) ==
    /\ cpc[p] = "stop_signal"
    /\ wstopper' = [wstopper EXCEPT ![Head(toClose[p])] = TRUE]
    /\ cpc' = [cpc EXCEPT ![p] = "stop_close"]
    /\ UNCHANGED <<stopper, streamsLock, runningStreams, colCounters, num, toClose,
                   missing, removed, wpc, cstream, conn, res, received, wpixels,
                   attempts, histVars>>
    /\ UNCHANGED <<ctrVars, avgVars, lkVars, regVars, strVars, prsVars, smpVars, opnVars>>

\* RunningStream.stop(): c.stream.Close(), main.go:232 (Close of a nil stream
\* or of an already closed connection changes nothing, rtmp-stream.go:321-328)
StopClose(p) ==
    /\ cpc[p] = "stop_close"
    /\ LET s == Head(toClose[p])
       IN  conn' = IF cstream[s] = "cur" /\ conn[s] = "open"
                   THEN [conn EXCEPT ![s] = "closed"]
                   ELSE conn
    /\ cpc' = [cpc EXCEPT ![p] = "stop_wait"]
    /\ UNCHANGED <<stopper, streamsLock, runningStreams, colCounters, num, toClose,
                   missing, removed, wpc, wstopper, cstream, res, received, wpixels,
                   attempts, histVars>>
    /\ UNCHANGED <<ctrVars, avgVars, lkVars, regVars, strVars, prsVars, smpVars, opnVars>>

\* a Wait() that returns while the task still runs
ExitedOrNot(w) == TRUE

\* c.wg.Wait() returns once the task has called c.wg.Done(), main.go:222, 233
Exited(w) == wpc[w] = "exited"

\* RunningStream.stop(): c.wg.Wait(), main.go:233, then the next stream of
\* the loop at main.go:132
StopWait(p) ==
    /\ cpc[p] = "stop_wait"
    /\ Exited(Head(toClose[p]))
    /\ toClose' = [toClose EXCEPT ![p] = Tail(toClose[p])]
    /\ cpc' = [cpc EXCEPT ![p] = IF Tail(toClose[p]) = <<>> THEN "return" ELSE "stop_signal"]
    /\ UNCHANGED <<stopper, streamsLock, runningStreams, colCounters, num,
                   missing, removed, workerVars, attempts, histVars>>
    /\ UNCHANGED <<ctrVars, avgVars, lkVars, regVars, strVars, prsVars, smpVars, opnVars>>

\* a check of the stop flag that never sees it set
StoppedNever == FALSE

\* c.stopper.Stopped(), main.go:137
Stopped == stopper

\* main.go:137-140: no stream is spawned once the collector is stopped
CheckStopped(p) ==
    /\ cpc[p] = "check"
    /\ IF Stopped
       THEN /\ cpc' = [cpc EXCEPT ![p] = "return"]
            /\ hskip' = [hskip EXCEPT ![p] = TRUE]
            /\ UNCHANGED missing
       ELSE /\ cpc' = [cpc EXCEPT ![p] = "spawn"]
            /\ missing' = [missing EXCEPT ![p] = num[p] - Len(runningStreams)]
            /\ UNCHANGED hskip
    /\ UNCHANGED <<stopper, streamsLock, runningStreams, colCounters, num, toClose,
                   removed, workerVars, attempts, hreq, hlen, hstopped>>
    /\ UNCHANGED <<ctrVars, avgVars, lkVars, regVars, strVars, prsVars, smpVars, opnVars>>

FreeSlots == {w \in Slots : wpc[w] = "none"}

\* main.go:142-146: one iteration of the loop; start() launches the task
Spawn(p) ==
    /\ cpc[p] = "spawn"
    /\ FreeSlots # {}
    /\ LET w == CHOOSE x \in FreeSlots : \A y \in FreeSlots : x <= y
       IN  /\ runningStreams' = Append(runningStreams, w)
           /\ wpc' = [wpc EXCEPT ![w] = "loop"]
    /\ missing' = [missing EXCEPT ![p] = missing[p] - 1]
    /\ cpc' = [cpc EXCEPT ![p] = IF missing[p] = 1 THEN "return" ELSE "spawn"]
    /\ UNCHANGED <<stopper, streamsLock, colCounters, num, toClose, removed,
                   wstopper, cstream, conn, res, received, wpixels,
                   attempts, histVars>>
    /\ UNCHANGED <<ctrVars, avgVars, lkVars, regVars, strVars, prsVars, smpVars, opnVars>>

\* main.go:123 (deferred Unlock) and the return to the caller; the
\* RunningStream objects cut off the list are dropped (their slots are free)
Return(p) ==
    /\ cpc[p] = "return"
    /\ streamsLock' = streamsLock \ {p}
    /\ cpc' = [cpc EXCEPT ![p] = IF p = Main
                                  THEN (IF stopper THEN "closed" ELSE "running")
                                  ELSE "idle"]
    /\ num' = [num EXCEPT ![p] = 0]
    /\ missing' = [missing EXCEPT ![p] = 0]
    /\ wpc' = [w \in Slots |-> IF w \in removed[p] THEN "none" ELSE wpc[w]]
    /\ wstopper' = [w \in Slots |-> IF w \in removed[p] THEN FALSE ELSE wstopper[w]]
    /\ cstream' = [w \in Slots |-> IF w \in removed[p] THEN "nil" ELSE cstream[w]]
    /\ conn' = [w \in Slots |-> IF w \in removed[p] THEN "none" ELSE conn[w]]
    /\ removed' = [removed EXCEPT ![p] = {}]
    /\ hskip' = [hskip EXCEPT ![p] = FALSE]
    /\ hreq' = [hreq EXCEPT ![p] = 0]
    /\ hlen' = [hlen EXCEPT ![p] = 0]
    /\ hstopped' = [hstopped EXCEPT ![p] = FALSE]
    /\ UNCHANGED <<stopper, runningStreams, colCounters, toClose,
                   res, received, wpixels, attempts>>
    /\ UNCHANGED <<ctrVars, avgVars, lkVars, regVars, strVars, prsVars, smpVars, opnVars>>

(***************************************************************************)
(* The task of one RunningStream (src/main.go:217-286).  Sleeping, opening *)
(* and receiving take time in the program; here each of them is one step   *)
(* taken when the call returns.  The increments of bytes, packets and      *)
(* packetDelay (main.go:261-262, 272) touch no state of this               *)
(* specification; those counters are modelled in SpecCounter and SpecAvg.  *)
(***************************************************************************)
WGoto(w, pos) == wpc' = [wpc EXCEPT ![w] = pos]

\* a loop of start that never sees the stopper stopped
LoopEndsNever(w) == FALSE

\* a loop that also ends once an error has been counted
LoopEndsOnError(w) == wstopper[w] \/ errors > 0

\* c.stopper.Stopped(), the condition that ends the loop of start, main.go:223
LoopEnds(w) == wstopper[w]

\* for !c.stopper.Stopped(), main.go:223; leaving the loop ends the task
\* (deferred c.wg.Done(), main.go:221-222)
WLoop(w) ==
    /\ wpc[w] = "loop"
    /\ WGoto(w, IF LoopEnds(w) THEN "exited" ELSE "delay")
    /\ UNCHANGED <<stopper, streamsLock, runningStreams, colCounters, callerVars,
                   wstopper, cstream, conn, res, received, wpixels,
                   attempts, histVars>>
    /\ UNCHANGED <<ctrVars, avgVars, lkVars, regVars, strVars, prsVars, smpVars, opnVars>>

\* a WaitTimeout that only its timer ends
InterruptedNever(w) == FALSE

\* golib.StopChan.WaitTimeout returns when its timer fires or when the
\* stopper is stopped, whichever is first (main.go:224, 241): the second way
Interrupted(w) == wstopper[w]

\* c.stopper.WaitTimeout(Sample()), main.go:224, returns because the sampled
\* delay has passed
WDelay(w) ==
    /\ wpc[w] = "delay"
    /\ WGoto(w, "open")
    /\ UNCHANGED <<stopper, streamsLock, runningStreams, colCounters, callerVars,
                   wstopper, cstream, conn, res, received, wpixels,
                   attempts, histVars>>
    /\ UNCHANGED <<ctrVars, avgVars, lkVars, regVars, strVars, prsVars, smpVars, opnVars>>

\* a c.stopper.WaitTimeout, main.go:224 or 241, returns before its timer has
\* fired because the stopper of the task was stopped
WInterrupt(w) ==
    /\ wpc[w] \in {"delay", "backoff"}
    /\ Interrupted(w)
    /\ WGoto(w, IF wpc[w] = "delay" THEN "open" ELSE "loop")
    /\ UNCHANGED <<stopper, streamsLock, runningStreams, colCounters, callerVars,
                   wstopper, cstream, conn, res, received, wpixels,
                   attempts, histVars>>
    /\ UNCHANGED <<ctrVars, avgVars, lkVars, regVars, strVars, prsVars, smpVars, opnVars>>

\* c.col.Factory.OpenStream() returns, main.go:237 (rtmp-stream.go:105-124):
\* a stream on an endpoint with some pixel metadata, ErrorNoURLs or an error.
\* c.stream still refers to what the previous call stored.
WOpen(w) ==
    /\ wpc[w] = "open"
    /\ \/ /\ res' = [res EXCEPT ![w] = "nourls"]
          /\ UNCHANGED <<conn, cstream, wpixels, attempts>>
       \/ /\ attempts < MaxAttempts
          /\ res' = [res EXCEPT ![w] = "err"]
          /\ attempts' = attempts + 1
          /\ UNCHANGED <<conn, cstream, wpixels>>
       \/ /\ attempts < MaxAttempts
          /\ res' = [res EXCEPT ![w] = "ok"]
          /\ attempts' = attempts + 1
          /\ conn' = [conn EXCEPT ![w] = "open"]
          /\ cstream' = [cstream EXCEPT ![w] = IF @ = "nil" THEN "nil" ELSE "old"]
          /\ \E px \in PixelChoices : wpixels' = [wpixels EXCEPT ![w] = px]
    /\ WGoto(w, "assign")
    /\ UNCHANGED <<stopper, streamsLock, runningStreams, colCounters, callerVars,
                   wstopper, received, histVars>>
    /\ UNCHANGED <<ctrVars, avgVars, lkVars, regVars, strVars, prsVars, smpVars, opnVars>>

\* a branch that counts ErrorNoURLs like every other error
AfterOpenAllErrors(r) == IF r = "ok" THEN "opened" ELSE "openerr"

\* a branch that backs off on every error
AfterOpenAllBackoff(r) == IF r = "ok" THEN "opened" ELSE "backoff"

\* the branch of handleStream on the error of OpenStream, main.go:239-248:
\* the statement the task executes next
AfterOpen(r) ==
    CASE r = "nourls" -> "backoff"
      [] r = "err" -> "openerr"
      [] OTHER -> "opened"

\* c.stream = stream and the branch on err, main.go:238-252
WAssign(w) ==
    /\ wpc[w] = "assign"
    /\ cstream' = [cstream EXCEPT ![w] = IF res[w] = "ok" THEN "cur" ELSE "nil"]
    /\ WGoto(w, AfterOpen(res[w]))
    /\ res' = [res EXCEPT ![w] = "none"]
    /\ UNCHANGED <<stopper, streamsLock, runningStreams, colCounters, callerVars,
                   wstopper, conn, received, wpixels, attempts, histVars>>
    /\ UNCHANGED <<ctrVars, avgVars, lkVars, regVars, strVars, prsVars, smpVars, opnVars>>

\* c.stopper.WaitTimeout(noUrlsSleepDuration) returns because the back-off
\* has passed; return, main.go:240-242
WBackoff(w) ==
    /\ wpc[w] = "backoff"
    /\ WGoto(w, "loop")
    /\ UNCHANGED <<stopper, streamsLock, runningStreams, colCounters, callerVars,
                   wstopper, cstream, conn, res, received, wpixels,
                   attempts, histVars>>
    /\ UNCHANGED <<ctrVars, avgVars, lkVars, regVars, strVars, prsVars, smpVars, opnVars>>

\* c.col.errors.Increment(1); return, main.go:244-246
WOpenErr(w) ==
    /\ wpc[w] = "openerr"
    /\ errors' = errors + 1
    /\ WGoto(w, "loop")
    /\ UNCHANGED <<stopper, streamsLock, runningStreams, openConnections,
                   receivingConnections, pixels, opened, closed, callerVars,
                   wstopper, cstream, conn, res, received, wpixels,
                   attempts, histVars>>
    /\ UNCHANGED <<ctrVars, avgVars, lkVars, regVars, strVars, prsVars, smpVars, opnVars>>

\* c.col.opened.Increment(1), main.go:253
WOpened(w) ==
    /\ wpc[w] = "opened"
    /\ opened' = opened + 1
    /\ WGoto(w, "openconn")
    /\ UNCHANGED <<stopper, streamsLock, runningStreams, openConnections,
                   receivingConnections, pixels, closed, errors, callerVars,
                   wstopper, cstream, conn, res, received, wpixels,
                   attempts, histVars>>
    /\ UNCHANGED <<ctrVars, avgVars, lkVars, regVars, strVars, prsVars, smpVars, opnVars>>

\* c.col.openConnections.Increment(1); received := false, main.go:254-257
WOpenConn(w) ==
    /\ wpc[w] = "openconn"
    /\ openConnections' = openConnections + 1
    /\ received' = [received EXCEPT ![w] = FALSE]
    /\ WGoto(w, "recvcheck")
    /\ UNCHANGED <<stopper, streamsLock, runningStreams,
                   receivingConnections, pixels, opened, closed, errors, callerVars,
                   wstopper, cstream, conn, res, wpixels,
                   attempts, histVars>>
    /\ UNCHANGED <<ctrVars, avgVars, lkVars, regVars, strVars, prsVars, smpVars, opnVars>>

\* the decrements are skipped when the stream ends by the external stop
DeferStartNotOnStop(w) == IF received[w] /\ ~wstopper[w] THEN "d_pixels" ELSE "d_open"

\* first deferred call to run when handleStream returns after a successful
\* open: the decrements registered at main.go:267, 269 if received
DeferStart(w) == IF received[w] THEN "d_pixels" ELSE "d_open"

\* for !c.stopper.Stopped(), main.go:258
WRecvCheck(w) ==
    /\ wpc[w] = "recvcheck"
    /\ WGoto(w, IF wstopper[w] THEN DeferStart(w) ELSE "recv")
    /\ UNCHANGED <<stopper, streamsLock, runningStreams, colCounters, callerVars,
                   wstopper, cstream, conn, res, received, wpixels,
                   attempts, histVars>>
    /\ UNCHANGED <<ctrVars, avgVars, lkVars, regVars, strVars, prsVars, smpVars, opnVars>>

\* what ends the select of RtmpStream.Receive, rtmp-stream.go:297-317: the
\* event channel was closed, an audio or video event with or without bytes,
\* StreamEOF, another event, or TimeoutDuration passed without any event
ReceiveEvents == {"closed", "data", "empty", "eof", "unexpected", "timeout"}

\* RtmpStream.Receive, rtmp-stream.go:294-319: what it returns on an event
Receive(ev) ==
    CASE ev = "data" -> [num |-> 1, err |-> "nil"]
      [] ev = "empty" -> [num |-> 0, err |-> "nil"]
      [] ev = "eof" -> [num |-> 0, err |-> "EOF"]
      [] OTHER -> [num |-> 0, err |-> "error"]

\* branches that take every error of Receive for the end of the stream
AfterReceiveErrorAsEOF(w, r) ==
    CASE r.num > 0 /\ ~received[w] -> "recvinc"
      [] r.num > 0 -> "recvcheck"
      [] r.err # "nil" -> "closeinc"
      [] OTHER -> "recvcheck"

\* the branches of handleStream on what Receive returned, main.go:260, 264
\* and 276-284: the statement the task executes next (Receive returns no
\* error together with bytes)
AfterReceive(w, r) ==
    CASE r.num > 0 /\ ~received[w] -> "recvinc"
      [] r.num > 0 -> "recvcheck"
      [] r.err = "EOF" -> "closeinc"
      [] r.err # "nil" -> "errinc"
      [] OTHER -> "recvcheck"

\* stream.Receive() returns, main.go:259, and handleStream branches on it
WRecv(w) ==
    /\ wpc[w] = "recv"
    /\ \E ev \in ReceiveEvents : WGoto(w, AfterReceive(w, Receive(ev)))
    /\ UNCHANGED <<stopper, streamsLock, runningStreams, colCounters, callerVars,
                   wstopper, cstream, conn, res, received, wpixels,
                   attempts, histVars>>
    /\ UNCHANGED <<ctrVars, avgVars, lkVars, regVars, strVars, prsVars, smpVars, opnVars>>

\* received = true; c.col.receivingConnections.Increment(1), main.go:265-267
WRecvInc(w) ==
    /\ wpc[w] = "recvinc"
    /\ received' = [received EXCEPT ![w] = TRUE]
    /\ receivingConnections' = receivingConnections + 1
    /\ WGoto(w, "pixinc")
    /\ UNCHANGED <<stopper, streamsLock, runningStreams, openConnections,
                   pixels, opened, closed, errors, callerVars,
                   wstopper, cstream, conn, res, wpixels,
                   attempts, histVars>>
    /\ UNCHANGED <<ctrVars, avgVars, lkVars, regVars, strVars, prsVars, smpVars, opnVars>>

\* c.col.pixels.Increment(pixels), main.go:268-269
WPixInc(w) ==
    /\ wpc[w] = "pixinc"
    /\ pixels' = pixels + wpixels[w]
    /\ WGoto(w, "recvcheck")
    /\ UNCHANGED <<stopper, streamsLock, runningStreams, openConnections,
                   receivingConnections, opened, closed, errors, callerVars,
                   wstopper, cstream, conn, res, received, wpixels,
                   attempts, histVars>>
    /\ UNCHANGED <<ctrVars, avgVars, lkVars, regVars, strVars, prsVars, smpVars, opnVars>>

\* c.col.errors.Increment(1), main.go:281
WErrInc(w) ==
    /\ wpc[w] = "errinc"
    /\ errors' = errors + 1
    /\ WGoto(w, "closeinc")
    /\ UNCHANGED <<stopper, streamsLock, runningStreams, openConnections,
                   receivingConnections, pixels, opened, closed, callerVars,
                   wstopper, cstream, conn, res, received, wpixels,
                   attempts, histVars>>
    /\ UNCHANGED <<ctrVars, avgVars, lkVars, regVars, strVars, prsVars, smpVars, opnVars>>

\* c.col.closed.Increment(1); return, main.go:277-278 and 282-283
WCloseInc(w) ==
    /\ wpc[w] = "closeinc"
    /\ closed' = closed + 1
    /\ WGoto(w, DeferStart(w))
    /\ UNCHANGED <<stopper, streamsLock, runningStreams, openConnections,
                   receivingConnections, pixels, opened, errors, callerVars,
                   wstopper, cstream, conn, res, received, wpixels,
                   attempts, histVars>>
    /\ UNCHANGED <<ctrVars, avgVars, lkVars, regVars, strVars, prsVars, smpVars, opnVars>>

\* deferred c.col.pixels.Increment(-pixels), main.go:269
WDeferPixels(w) ==
    /\ wpc[w] = "d_pixels"
    /\ pixels' = pixels - wpixels[w]
    /\ WGoto(w, "d_receiving")
    /\ UNCHANGED <<stopper, streamsLock, runningStreams, openConnections,
                   receivingConnections, opened, closed, errors, callerVars,
                   wstopper, cstream, conn, res, received, wpixels,
                   attempts, histVars>>
    /\ UNCHANGED <<ctrVars, avgVars, lkVars, regVars, strVars, prsVars, smpVars, opnVars>>

\* deferred c.col.receivingConnections.Increment(-1), main.go:267
WDeferReceiving(w) ==
    /\ wpc[w] = "d_receiving"
    /\ receivingConnections' = receivingConnections - 1
    /\ WGoto(w, "d_open")
    /\ UNCHANGED <<stopper, streamsLock, runningStreams, openConnections,
                   pixels, opened, closed, errors, callerVars,
                   wstopper, cstream, conn, res, received, wpixels,
                   attempts, histVars>>
    /\ UNCHANGED <<ctrVars, avgVars, lkVars, regVars, strVars, prsVars, smpVars, opnVars>>

\* deferred c.col.openConnections.Increment(-1), main.go:255
WDeferOpen(w) ==
    /\ wpc[w] = "d_open"
    /\ openConnections' = openConnections - 1
    /\ WGoto(w, "d_close")
    /\ UNCHANGED <<stopper, streamsLock, runningStreams,
                   receivingConnections, pixels, opened, closed, errors, callerVars,
                   wstopper, cstream, conn, res, received, wpixels,
                   attempts, histVars>>
    /\ UNCHANGED <<ctrVars, avgVars, lkVars, regVars, strVars, prsVars, smpVars, opnVars>>

\* a return of handleStream that leaves the stream open
WDeferCloseSkipped(w) ==
    /\ wpc[w] = "d_close"
    /\ received' = [received EXCEPT ![w] = FALSE]
    /\ wpixels' = [wpixels EXCEPT ![w] = 0]
    /\ WGoto(w, "loop")
    /\ UNCHANGED <<stopper, streamsLock, runningStreams, colCounters, callerVars,
                   wstopper, cstream, conn, res, attempts, histVars>>
    /\ UNCHANGED <<ctrVars, avgVars, lkVars, regVars, strVars, prsVars, smpVars, opnVars>>

\* deferred c.stream.Close(), main.go:250; handleStream returns to the loop
WDeferClose(w) ==
    /\ wpc[w] = "d_close"
    /\ conn' = [conn EXCEPT ![w] = "closed"]
    /\ received' = [received EXCEPT ![w] = FALSE]
    /\ wpixels' = [wpixels EXCEPT ![w] = 0]
    /\ WGoto(w, "loop")
    /\ UNCHANGED <<stopper, streamsLock, runningStreams, colCounters, callerVars,
                   wstopper, cstream, res, attempts, histVars>>
    /\ UNCHANGED <<ctrVars, avgVars, lkVars, regVars, strVars, prsVars, smpVars, opnVars>>

Worker(w) ==
    \/ WLoop(w) \/ WDelay(w) \/ WInterrupt(w) \/ WOpen(w) \/ WAssign(w) \/ WBackoff(w)
    \/ WOpenErr(w) \/ WOpened(w) \/ WOpenConn(w) \/ WRecvCheck(w) \/ WRecv(w)
    \/ WRecvInc(w) \/ WPixInc(w) \/ WErrInc(w) \/ WCloseInc(w)
    \/ WDeferPixels(w) \/ WDeferReceiving(w) \/ WDeferOpen(w) \/ WDeferClose(w)

SetNumberOfStreams(p) ==
    \/ Lock(p) \/ StopSignal(p) \/ StopClose(p) \/ StopWait(p)
    \/ CheckStopped(p) \/ Spawn(p) \/ Return(p)

\* a collector that is started and closed (main.go:112-118, 150-153) while
\* no request to /streams resizes it: the tasks of its running streams
NextWorker ==
    \/ \E n \in Targets : StartCall(n)
    \/ Close
    \/ SetNumberOfStreams(Main)
    \/ \E w \in Slots : Worker(w)

\* a collector that is started, resized by requests to /streams and closed
NextResize ==
    \/ StartCall(FairTarget)
    \/ \E p \in Api, n \in 0..FairTarget : ApiCall(p, n)
    \/ Close
    \/ \E p \in Callers : SetNumberOfStreams(p)
    \/ \E w \in Slots : Worker(w)

NextPool ==
    \/ \E n \in Targets : StartCall(n)
    \/ \E p \in Api, n \in Targets : ApiCall(p, n)
    \/ Close
    \/ \E p \in Callers : SetNumberOfStreams(p)
    \/ \E w \in Slots : Worker(w)

(***************************************************************************)
(* The endpoint registry (SpecRegistry): RtmpStreamFactory                 *)
(* (src/rtmp-stream.go:30-103), filled by do_main (src/main.go:48-56) and  *)
(* by the handler of /endpoints (src/rest-api.go:24-58), and read by the   *)
(* tasks that call nextEndpoint.  rest-api.go writes the registry as a     *)
(* list of host names (hosts) and the endpoints under each name            *)
(* (hostURLs[host]); getHost, addEndpoints and nextEndpoint are modelled   *)
(* on that same pair: an RtmpHost is a name in hosts, its endpoints field  *)
(* is hostURLs[name].                                                      *)
(*                                                                         *)
(* An argument or request line is a record: the host of its URL, whether   *)
(* it holds a template {{lo hi}}, and the set bad of the numbers whose     *)
(* generated URL url.Parse rejects (0 stands for the URL of a line without *)
(* template).  An endpoint is the pair <<host, number>>.                   *)
(***************************************************************************)
HostNames == {"", "a", "b"}

Blank == [kind |-> "blank", host |-> "", tmpl |-> FALSE, lo |-> 0, hi |-> 0, bad |-> {}]

\* rtmp://a/live/x
PlainA == [kind |-> "url", host |-> "a", tmpl |-> FALSE, lo |-> 0, hi |-> 0, bad |-> {}]
\* rtmp://b/live/x{{1 2}}
RangeB == [kind |-> "url", host |-> "b", tmpl |-> TRUE, lo |-> 1, hi |-> 2, bad |-> {}]
\* a template whose first generated URL does not parse and whose second does
RangeHalfA == [kind |-> "url", host |-> "a", tmpl |-> TRUE, lo |-> 1, hi |-> 2, bad |-> {1}]
\* a line url.Parse rejects
PlainBad == [kind |-> "url", host |-> "a", tmpl |-> FALSE, lo |-> 0, hi |-> 0, bad |-> {0}]
\* rtmp://b/live/x{{2 1}}
RangeDown == [kind |-> "url", host |-> "b", tmpl |-> TRUE, lo |-> 2, hi |-> 1, bad |-> {}]

\* the arguments do_main is started with, the lines a request body holds
ArgSpecs == {PlainA, RangeB, RangeDown}

Lines == {PlainA, RangeHalfA, PlainBad, Blank}

Bodies == UNION {[1..n -> Lines] : n \in 0..MaxLines}

\* the loop of generateURLs ending one number early (i < max)
generateURLsExclusive(line) == [k \in 1..(line.hi - line.lo) |-> line.lo + k - 1]

\* generateURLs, rtmp-stream.go:274-286: one URL per number of lo..hi
generateURLs(line) == [k \in 1..(line.hi - line.lo + 1) |-> line.lo + k - 1]

RECURSIVE ParsedEndpoints(_, _)
\* the loop at rtmp-stream.go:235-262: the URLs that url.Parse accepts
ParsedEndpoints(line, unparsed) ==
    IF unparsed = <<>> THEN <<>>
    ELSE IF Head(unparsed) \in line.bad
         THEN ParsedEndpoints(line, Tail(unparsed))
         ELSE <<<<line.host, Head(unparsed)>>>> \o ParsedEndpoints(line, Tail(unparsed))

\* ParseURLArgument, rtmp-stream.go:204-272: host, endpoints and whether the
\* error returned is not nil
ParseURLArgument(line) ==
    IF line.tmpl /\ line.lo > line.hi
    THEN [host |-> "", urls |-> <<>>, err |-> TRUE]
    ELSE LET unparsed == IF line.tmpl THEN generateURLs(line) ELSE <<0>>
             endpoints == ParsedEndpoints(line, unparsed)
             err == \E k \in 1..Len(unparsed) : unparsed[k] \in line.bad
         IN  IF Len(endpoints) > 0
             THEN [host |-> endpoints[1][1], urls |-> endpoints, err |-> err]
             ELSE [host |-> "", urls |-> <<>>, err |-> TRUE]

\* getStrippedLines, rest-api.go:99-109: the lines that are not blank
getStrippedLines(body) == SelectSeq(body, LAMBDA l : l.kind # "blank")

NoEndpoints == [h \in HostNames |-> <<>>]

\* what nextEndpoint returned: nothing yet, ErrorNoURLs (rtmp-stream.go:24)
\* or an endpoint
NoResult == [kind |-> "none", ep |-> <<"", 0>>]
ErrorNoURLs == [kind |-> "nourls", ep |-> <<"", 0>>]
\* rand.Intn panics on an argument that is not positive
Panicked == [kind |-> "panic", ep |-> <<"", 0>>]

InitRegistry ==
    /\ hosts = <<>>
    /\ hostURLs = NoEndpoints
    /\ hostCounter = 0
    /\ phase = "args"
    /\ spc = [s \in Selectors |-> "idle"]
    /\ si = [s \in Selectors |-> 0]
    /\ snext = [s \in Selectors |-> ""]
    /\ sreg = [s \in Selectors |-> 0]
    /\ sres = [s \in Selectors |-> NoResult]
    /\ rpc = "idle"
    /\ rmethod = "GET"
    /\ rlines = <<>>
    /\ rhost = ""
    /\ rurls = <<>>
    /\ rstatus = 0
    /\ rreport = <<>>
    /\ nsel = 0
    /\ nreq = 0
    /\ hpicks = <<>>
    /\ hstores = 0
    /\ hmut = [s \in Selectors |-> FALSE]
    /\ hpre = [hosts |-> <<>>, urls |-> NoEndpoints]
    /\ hall = <<>>

selVars == <<spc, si, snext, sreg, sres>>
reqVars == <<rpc, rmethod, rlines, rhost, rurls, rstatus, rreport>>
regHist == <<nsel, nreq, hpicks, hstores, hmut, hpre, hall>>

\* getHost, rtmp-stream.go:69-80: the host list after the call
getHost(list, host) ==
    IF \E k \in 1..Len(list) : list[k] = host THEN list ELSE Append(list, host)

\* addEndpoints, rtmp-stream.go:48-50
addEndpoints(urls, host, endpoints) == [urls EXCEPT ![host] = @ \o endpoints]

RECURSIVE AddArgs(_, _)
\* do_main, main.go:49-56: the loop over the arguments; an argument that
\* parses without error is added through getHost and addEndpoints, any
\* other is logged and skipped
AddArgs(reg, args) ==
    IF args = <<>> THEN reg
    ELSE LET r == ParseURLArgument(Head(args))
         IN  IF ~r.err
             THEN AddArgs([hosts |-> getHost(reg.hosts, r.host),
                           urls |-> addEndpoints(reg.urls, r.host, r.urls)], Tail(args))
             ELSE AddArgs(reg, Tail(args))

\* the command lines of at most n arguments
ArgLists(n) == UNION {[1..k -> ArgSpecs] : k \in 0..n}

\* do_main, main.go:41-78: the factory is created, the arguments fill the
\* registry, then the pipeline starts; from here on the tasks of the running
\* streams and the REST handlers run
MainArgs(args) ==
    /\ phase = "args"
    /\ LET reg == AddArgs([hosts |-> <<>>, urls |-> NoEndpoints], args)
       IN  /\ hosts' = reg.hosts
           /\ hostURLs' = reg.urls
    /\ phase' = "serving"
    /\ UNCHANGED <<hostCounter, selVars, reqVars, regHist>>
    /\ UNCHANGED <<poolVars, ctrVars, avgVars, lkVars, strVars, prsVars, smpVars, opnVars>>

(***************************************************************************)
(* nextEndpoint and nextHost (src/rtmp-stream.go:82-103), called by the    *)
(* task of every running stream through OpenStream.  No lock is taken:     *)
(* each read and each write of the factory's fields is a step of its own.  *)
(***************************************************************************)
\* nextEndpoint: i := len(f.hosts), rtmp-stream.go:83
SelStart(s) ==
    /\ phase = "serving"
    /\ spc[s] = "idle"
    /\ nsel < MaxSel
    /\ nsel' = nsel + 1
    /\ si' = [si EXCEPT ![s] = Len(hosts)]
    /\ sres' = [sres EXCEPT ![s] = NoResult]
    /\ hmut' = [hmut EXCEPT ![s] = FALSE]
    /\ spc' = [spc EXCEPT ![s] = "pick"]
    /\ UNCHANGED <<hosts, hostURLs, hostCounter, phase, snext, sreg,
                   reqVars, nreq, hpicks, hstores, hpre, hall>>
    /\ UNCHANGED <<poolVars, ctrVars, avgVars, lkVars, strVars, prsVars, smpVars, opnVars>>

\* nextHost: hosts := f.hosts; ErrorNoURLs on an empty list, else
\* nextHost := hosts[f.hostCounter%len(hosts)], rtmp-stream.go:96-100
SelPick(s) ==
    /\ spc[s] = "pick"
    /\ IF Len(hosts) = 0
       THEN /\ sres' = [sres EXCEPT ![s] = ErrorNoURLs]
            /\ spc' = [spc EXCEPT ![s] = "done"]
            /\ UNCHANGED snext
       ELSE /\ snext' = [snext EXCEPT ![s] = hosts[(hostCounter % Len(hosts)) + 1]]
            /\ spc' = [spc EXCEPT ![s] = "load"]
            /\ UNCHANGED sres
    /\ UNCHANGED <<hosts, hostURLs, hostCounter, phase, si, sreg,
                   reqVars, regHist>>
    /\ UNCHANGED <<poolVars, ctrVars, avgVars, lkVars, strVars, prsVars, smpVars, opnVars>>

\* nextHost: f.hostCounter++ loads the field, rtmp-stream.go:101
SelLoad(s) ==
    /\ spc[s] = "load"
    /\ sreg' = [sreg EXCEPT ![s] = hostCounter]
    /\ spc' = [spc EXCEPT ![s] = "store"]
    /\ UNCHANGED <<hosts, hostURLs, hostCounter, phase, si, snext, sres,
                   reqVars, regHist>>
    /\ UNCHANGED <<poolVars, ctrVars, avgVars, lkVars, strVars, prsVars, smpVars, opnVars>>

\* nextHost: f.hostCounter++ stores the incremented value, rtmp-stream.go:101
SelStore(s) ==
    /\ spc[s] = "store"
    /\ hostCounter' = sreg[s] + 1
    /\ hstores' = hstores + 1
    /\ spc' = [spc EXCEPT ![s] = "check"]
    /\ UNCHANGED <<hosts, hostURLs, phase, si, snext, sreg, sres,
                   reqVars, nsel, nreq, hpicks, hmut, hpre, hall>>
    /\ UNCHANGED <<poolVars, ctrVars, avgVars, lkVars, strVars, prsVars, smpVars, opnVars>>

\* nextEndpoint: len(nextHost.endpoints) > 0 returns a random endpoint of the
\* host (getRandomEndpoint, rtmp-stream.go:42-46); otherwise i-- and the
\* next round while i >= 0, and ErrorNoURLs after the loop, rtmp-stream.go:83-92
SelCheck(s) ==
    /\ spc[s] = "check"
    /\ IF Len(hostURLs[snext[s]]) > 0
       THEN /\ \E k \in 1..Len(hostURLs[snext[s]]) :
                   sres' = [sres EXCEPT ![s] = [kind |-> "endpoint",
                                                  ep |-> hostURLs[snext[s]][k]]]
            /\ hpicks' = IF hmut[s] THEN <<>> ELSE Append(hpicks, snext[s])
            /\ spc' = [spc EXCEPT ![s] = "done"]
            /\ UNCHANGED si
       ELSE /\ UNCHANGED hpicks
            /\ IF si[s] = 0
               THEN /\ sres' = [sres EXCEPT ![s] = ErrorNoURLs]
                    /\ spc' = [spc EXCEPT ![s] = "done"]
                    /\ UNCHANGED si
               ELSE /\ si' = [si EXCEPT ![s] = si[s] - 1]
                    /\ spc' = [spc EXCEPT ![s] = "pick"]
                    /\ UNCHANGED sres
    /\ UNCHANGED <<hosts, hostURLs, hostCounter, phase, snext, sreg,
                   reqVars, nsel, nreq, hstores, hmut, hpre, hall>>
    /\ UNCHANGED <<poolVars, ctrVars, avgVars, lkVars, strVars, prsVars, smpVars, opnVars>>

\* nextURL, rtmp-stream.go:366-379, the selection of the factory that holds
\* hosts and hostURLs (rtmp-stream.go:359-360): its loop and its nextHost
\* (rtmp-stream.go:381-389) are those of nextEndpoint, its success branch
\* draws randomIndex := rand.Intn(hostLen) and returns the URL at
\* rand.Intn(randomIndex), rtmp-stream.go:371-374; rand.Intn(0) panics
SelCheckURL(s) ==
    /\ spc[s] = "check"
    /\ Len(hostURLs[snext[s]]) > 0
    /\ \E randomIndex \in 0..(Len(hostURLs[snext[s]]) - 1) :
           IF randomIndex = 0
           THEN /\ sres' = [sres EXCEPT ![s] = Panicked]
                /\ UNCHANGED hpicks
           ELSE /\ \E k \in 0..(randomIndex - 1) :
                       sres' = [sres EXCEPT ![s] = [kind |-> "endpoint",
                                                      ep |-> hostURLs[snext[s]][k + 1]]]
                /\ hpicks' = IF hmut[s] THEN <<>> ELSE Append(hpicks, snext[s])
    /\ spc' = [spc EXCEPT ![s] = "done"]
    /\ UNCHANGED <<hosts, hostURLs, hostCounter, phase, si, snext, sreg,
                   reqVars, nsel, nreq, hstores, hmut, hpre, hall>>
    /\ UNCHANGED <<poolVars, ctrVars, avgVars, lkVars, strVars, prsVars, smpVars, opnVars>>

\* nextEndpoint has returned to OpenStream, rtmp-stream.go:106 (a panic does
\* not return: the task takes no further step)
SelDone(s) ==
    /\ spc[s] = "done"
    /\ sres[s] # Panicked
    /\ spc' = [spc EXCEPT ![s] = "idle"]
    /\ si' = [si EXCEPT ![s] = 0]
    /\ snext' = [snext EXCEPT ![s] = ""]
    /\ sreg' = [sreg EXCEPT ![s] = 0]
    /\ sres' = [sres EXCEPT ![s] = NoResult]
    /\ hmut' = [hmut EXCEPT ![s] = FALSE]
    /\ UNCHANGED <<hosts, hostURLs, hostCounter, phase,
                   reqVars, nsel, nreq, hpicks, hstores, hpre, hall>>
    /\ UNCHANGED <<poolVars, ctrVars, avgVars, lkVars, strVars, prsVars, smpVars, opnVars>>

nextEndpoint(s) ==
    \/ SelStart(s) \/ SelPick(s) \/ SelLoad(s) \/ SelStore(s)
    \/ SelCheck(s) \/ SelCheckURL(s) \/ SelDone(s)

(***************************************************************************)
(* The handler of /endpoints (src/rest-api.go:24-58).  It takes no lock    *)
(* either; every assignment to a field of the factory is a step.           *)
(***************************************************************************)
\* history: the registry is written while these selectors are inside
\* nextEndpoint
Written == [s \in Selectors |-> hmut[s] \/ spc[s] # "idle"]

\* the empty body is not rejected
LinesMissingNever(lines) == FALSE

\* getRequestLines, rest-api.go:91: len(lines) == 0
LinesMissing(lines) == Len(lines) = 0

\* handleEndpoints, rest-api.go:24-43, for a POST or PUT request: the body
\* is read and stripped (getRequestLines, rest-api.go:83-97); without a
\* non-blank line the response is 400 and the handler returns
HandleEndpoints(method, body) ==
    /\ phase = "serving"
    /\ rpc = "idle"
    /\ nreq < MaxReqs
    /\ nreq' = nreq + 1
    /\ rmethod' = method
    /\ LET lines == getStrippedLines(body)
       IN  IF LinesMissing(lines)
           THEN /\ rstatus' = 400
                /\ UNCHANGED <<rpc, rlines, rreport, hpre, hall>>
           ELSE /\ rstatus' = 200
                /\ rlines' = lines
                /\ rreport' = <<>>
                /\ hall' = lines
                /\ hpre' = [hosts |-> hosts, urls |-> hostURLs]
                /\ rpc' = IF method = "POST" THEN "clear_hosts" ELSE "entry"
    /\ UNCHANGED <<hosts, hostURLs, hostCounter, phase, selVars,
                   rhost, rurls, nsel, hpicks, hstores, hmut>>
    /\ UNCHANGED <<poolVars, ctrVars, avgVars, lkVars, strVars, prsVars, smpVars, opnVars>>

\* POST: api.Col.Factory.hosts = nil, rest-api.go:30
ClearHosts ==
    /\ rpc = "clear_hosts"
    /\ hosts' = <<>>
    /\ hmut' = Written
    /\ hpicks' = <<>>
    /\ rpc' = "clear_urls"
    /\ UNCHANGED <<hostURLs, hostCounter, phase, selVars,
                   rmethod, rlines, rhost, rurls, rstatus, rreport,
                   nsel, nreq, hstores, hpre, hall>>
    /\ UNCHANGED <<poolVars, ctrVars, avgVars, lkVars, strVars, prsVars, smpVars, opnVars>>

\* POST: api.Col.Factory.hostURLs = make(...), rest-api.go:31
ClearURLs ==
    /\ rpc = "clear_urls"
    /\ hostURLs' = NoEndpoints
    /\ hmut' = Written
    /\ hpicks' = <<>>
    /\ rpc' = "entry"
    /\ UNCHANGED <<hosts, hostCounter, phase, selVars,
                   rmethod, rlines, rhost, rurls, rstatus, rreport,
                   nsel, nreq, hstores, hpre, hall>>
    /\ UNCHANGED <<poolVars, ctrVars, avgVars, lkVars, strVars, prsVars, smpVars, opnVars>>

\* appendEndpointURLs, rest-api.go:48: the branch that adds the entry is
\* taken on er != nil
Added(r) == r.err

\* appendEndpointURLs, rest-api.go:47-48, 52-55: the next entry is parsed; in
\* the else branch the error text is written and nothing is added
Entry ==
    /\ rpc = "entry"
    /\ IF rlines = <<>>
       THEN /\ rpc' = "done"
            /\ UNCHANGED <<rlines, rhost, rurls, rreport>>
       ELSE LET r == ParseURLArgument(Head(rlines))
            IN  IF Added(r)
                THEN /\ rhost' = r.host
                     /\ rurls' = r.urls
                     /\ rpc' = "add_host"
                     /\ UNCHANGED <<rlines, rreport>>
                ELSE /\ rreport' = Append(rreport, "error")
                     /\ rlines' = Tail(rlines)
                     /\ UNCHANGED <<rpc, rhost, rurls>>
    /\ UNCHANGED <<hosts, hostURLs, hostCounter, phase, selVars,
                   rmethod, rstatus, regHist>>
    /\ UNCHANGED <<poolVars, ctrVars, avgVars, lkVars, strVars, prsVars, smpVars, opnVars>>

\* appendEndpointURLs: hosts = append(hosts, host), rest-api.go:49
AddHost ==
    /\ rpc = "add_host"
    /\ hosts' = Append(hosts, rhost)
    /\ hmut' = Written
    /\ hpicks' = <<>>
    /\ rpc' = "add_urls"
    /\ UNCHANGED <<hostURLs, hostCounter, phase, selVars,
                   rmethod, rlines, rhost, rurls, rstatus, rreport,
                   nsel, nreq, hstores, hpre, hall>>
    /\ UNCHANGED <<poolVars, ctrVars, avgVars, lkVars, strVars, prsVars, smpVars, opnVars>>

\* appendEndpointURLs: hostURLs[host] = append(hostURLs[host], urls...) and
\* the text "successfully added" is written, rest-api.go:50-51
AddURLs ==
    /\ rpc = "add_urls"
    /\ hostURLs' = [hostURLs EXCEPT ![rhost] = @ \o rurls]
    /\ hmut' = Written
    /\ hpicks' = <<>>
    /\ rreport' = Append(rreport, "success")
    /\ rlines' = Tail(rlines)
    /\ rhost' = ""
    /\ rurls' = <<>>
    /\ rpc' = "entry"
    /\ UNCHANGED <<hosts, hostCounter, phase, selVars,
                   rmethod, rstatus, nsel, nreq, hstores, hpre, hall>>
    /\ UNCHANGED <<poolVars, ctrVars, avgVars, lkVars, strVars, prsVars, smpVars, opnVars>>

\* handleEndpoints returns, rest-api.go:44
EndpointsDone ==
    /\ rpc = "done"
    /\ rpc' = "idle"
    /\ rreport' = <<>>
    /\ hall' = <<>>
    /\ hpre' = [hosts |-> <<>>, urls |-> NoEndpoints]
    /\ UNCHANGED <<hosts, hostURLs, hostCounter, phase, selVars,
                   rmethod, rlines, rhost, rurls, rstatus,
                   nsel, nreq, hpicks, hstores, hmut>>
    /\ UNCHANGED <<poolVars, ctrVars, avgVars, lkVars, strVars, prsVars, smpVars, opnVars>>

NumStrings == {"", "x", "1.5"}

\* handleStreams, rest-api.go:64-76, for a POST or PUT request whose
\* parameter num is missing or is no integer (strconv.Atoi fails on each of
\* NumStrings but the empty one, which line 66 catches): the response is 400
\* and the handler returns before it reads or resizes the pool
HandleStreamsRejected(numStr) ==
    /\ phase = "serving"
    /\ rpc = "idle"
    /\ nreq < MaxReqs
    /\ nreq' = nreq + 1
    /\ rmethod' = "POST"
    /\ rstatus' = 400
    /\ UNCHANGED <<hosts, hostURLs, hostCounter, phase, selVars,
                   rpc, rlines, rhost, rurls, rreport,
                   nsel, hpicks, hstores, hmut, hpre, hall>>
    /\ UNCHANGED <<poolVars, ctrVars, avgVars, lkVars, strVars, prsVars, smpVars, opnVars>>

\* nextEndpoint calls on the registry do_main built
NextSelect ==
    \/ \E args \in ArgLists(MaxArgs) : MainArgs(args)
    \/ \E s \in Selectors : nextEndpoint(s)

NextRegistry ==
    \/ \E args \in ArgLists(MaxArgsServed) : MainArgs(args)
    \/ \E s \in Selectors : nextEndpoint(s)
    \/ \E method \in {"POST", "PUT"}, body \in Bodies : HandleEndpoints(method, body)
    \/ ClearHosts
    \/ ClearURLs
    \/ Entry
    \/ AddHost
    \/ AddURLs
    \/ EndpointsDone
    \/ \E numStr \in NumStrings : HandleStreamsRejected(numStr)

(***************************************************************************)
(* The handler of /streams (src/rest-api.go:60-81) for POST and PUT        *)
(* (SpecStreams).  Every request runs in a task of its own.  The call of   *)
(* SetNumberOfStreams runs under c.streamsLock from its first statement to *)
(* its return (main.go:122-123), so the calls of the requests follow each  *)
(* other; here a call is one step.  The two reads of                       *)
(* len(api.Col.runningStreams) in the handler take no lock.                *)
(***************************************************************************)
NoResponse == [prev |-> 0 - 1, new |-> 0 - 1]

InitStreams ==
    /\ qpc = [q \in Requests |-> "idle"]
    /\ qnum = [q \in Requests |-> 0]
    /\ previousNum = [q \in Requests |-> 0]
    /\ qresp = [q \in Requests |-> NoResponse]
    /\ nq = 0
    /\ hbefore = [q \in Requests |-> 0]
    /\ hafter = [q \in Requests |-> 0]

\* handleStreams, rest-api.go:65-77: num is present and strconv.Atoi
\* accepts it; previousNum := len(api.Col.runningStreams)
HandleStreams(q, n) ==
    /\ qpc[q] = "idle"
    /\ nq < MaxStreamReqs
    /\ nq' = nq + 1
    /\ qnum' = [qnum EXCEPT ![q] = n]
    /\ previousNum' = [previousNum EXCEPT ![q] = Len(runningStreams)]
    /\ qresp' = [qresp EXCEPT ![q] = NoResponse]
    /\ qpc' = [qpc EXCEPT ![q] = "call"]
    /\ UNCHANGED <<hbefore, hafter>>
    /\ UNCHANGED <<poolVars, ctrVars, avgVars, lkVars, regVars, prsVars, smpVars, opnVars>>

\* SetNumberOfStreams, main.go:121-148, from Lock to the deferred Unlock:
\* the list it leaves for the parameter n
Resized(n) ==
    LET target == Max(n, 0)
        len == Len(runningStreams)
    IN  IF len > target THEN Kept(target)
        ELSE IF len < target /\ ~Stopped THEN [k \in 1..target |-> k]
        ELSE runningStreams

\* handleStreams, rest-api.go:78: api.Col.SetNumberOfStreams(num); the
\* streams cut off the list are stopped and dropped, the new ones started
StreamsResize(q) ==
    /\ qpc[q] = "call"
    /\ streamsLock = {}
    /\ runningStreams' = Resized(qnum[q])
    /\ wpc' = [w \in Slots |-> IF w <= Len(Resized(qnum[q])) THEN "loop" ELSE "none"]
    /\ hbefore' = [hbefore EXCEPT ![q] = Len(runningStreams)]
    /\ hafter' = [hafter EXCEPT ![q] = Len(Resized(qnum[q]))]
    /\ qpc' = [qpc EXCEPT ![q] = "respond"]
    /\ UNCHANGED <<qnum, previousNum, qresp, nq>>
    /\ UNCHANGED <<stopper, streamsLock, colCounters, callerVars,
                   wstopper, cstream, conn, res, received, wpixels, attempts, histVars>>
    /\ UNCHANGED <<ctrVars, avgVars, lkVars, regVars, prsVars, smpVars, opnVars>>

\* handleStreams, rest-api.go:79: the response "Number of active streams set
\* from previousNum to len(api.Col.runningStreams)"; the handler returns
StreamsRespond(q) ==
    /\ qpc[q] = "respond"
    /\ qresp' = [qresp EXCEPT ![q] = [prev |-> previousNum[q],
                                        new |-> Len(runningStreams)]]
    /\ qpc' = [qpc EXCEPT ![q] = "idle"]
    /\ UNCHANGED <<qnum, previousNum, nq, hbefore, hafter>>
    /\ UNCHANGED <<poolVars, ctrVars, avgVars, lkVars, regVars, prsVars, smpVars, opnVars>>

NextStreams ==
    \/ \E q \in Requests, n \in Targets : HandleStreams(q, n)
    \/ \E q \in Requests : StreamsResize(q)
    \/ \E q \in Requests : StreamsRespond(q)

(***************************************************************************)
(* ParseURLArgument as a function of its argument (SpecParse): every call  *)
(* takes one endpoint specification and returns host, endpoints and error. *)
(* A specification is described by what the code reads of it: whether      *)
(* urlTemplateRegex matches (rtmp-stream.go:26, 208), the two numbers of   *)
(* the match, the host and the numbers whose generated URL url.Parse       *)
(* rejects, like 9 in rtmp://a/live/%{{9 10}}.  The regular expression     *)
(* only matches numbers that begin with 1..9, so lo and hi are positive.   *)
(***************************************************************************)
MaxNum == 3

TemplateSpecs ==
    {[kind |-> "url", host |-> h, tmpl |-> TRUE, lo |-> l, hi |-> u, bad |-> b] :
        h \in {"a", "b"}, l \in 1..MaxNum, u \in 1..MaxNum, b \in SUBSET (1..MaxNum)}

NoArg == [kind |-> "none", host |-> "", tmpl |-> FALSE, lo |-> 0, hi |-> 0, bad |-> {}]

NotParsed == [host |-> "", urls |-> <<>>, err |-> FALSE]

InitParse ==
    /\ urlArg = NoArg
    /\ parsed = NotParsed

\* f.ParseURLArgument(urlArg), rtmp-stream.go:204-272
ParseCall(line) ==
    /\ urlArg' = line
    /\ parsed' = ParseURLArgument(line)
    /\ UNCHANGED <<poolVars, ctrVars, avgVars, lkVars, regVars, strVars, smpVars, opnVars>>

NextParse ==
    \E line \in TemplateSpecs \cup {PlainA, PlainBad} : ParseCall(line)

(***************************************************************************)
(* The restart-delay sampler (SpecSampler),                                *)
(* src/random-distribution-helpers.go:1-139.  flag.Parse calls Set once    *)
(* for every -restartDelayDistribution on the command line (main.go:27),   *)
(* do_main then installs the default (main.go:35-38) and the tasks of the  *)
(* running streams sample (main.go:224).  A value is written as the list   *)
(* of its parts between ':' and every part after the first as the list of  *)
(* its parts between ',', so "equal:1s,2s" is <<"equal", <<"1s", "2s">>>>; *)
(* a duration is counted in seconds.                                       *)
(***************************************************************************)
MaxParams == 2

NormSpread == 3

Keywords == {"const", "equal", "norm", "cost"}

DurationTexts == {"-1s", "0s", "1s", "2s", "", "x"}

ParamLists == UNION {[1..n -> DurationTexts] : n \in 1..MaxParams}

\* "<kind>", "<kind>:<params>" and "<kind>:<param>:1s"
Values ==
    {<<k>> : k \in Keywords}
    \cup {<<k, ps>> : k \in Keywords, ps \in ParamLists}
    \cup {<<k, <<t>>, <<"1s">>>> : k \in Keywords, t \in DurationTexts}

NoValue == <<>>

\* time.ParseDuration of the standard library: the duration zero with an
\* error for a text that is no duration
ParseDuration(text) ==
    CASE text = "-1s" -> [d |-> 0 - 1, err |-> FALSE]
      [] text = "0s" -> [d |-> 0, err |-> FALSE]
      [] text = "1s" -> [d |-> 1, err |-> FALSE]
      [] text = "2s" -> [d |-> 2, err |-> FALSE]
      [] OTHER -> [d |-> 0, err |-> TRUE]

\* parseDuration, random-distribution-helpers.go:131-139
parseDuration(text) ==
    LET r == ParseDuration(text)
    IN  IF r.err /\ r.d >= 0 THEN [d |-> 0 - 1, err |-> TRUE]
        ELSE IF ~r.err /\ r.d < 0 THEN [d |-> 0 - 1, err |-> TRUE]
        ELSE [d |-> r.d, err |-> FALSE]

\* a nil distSampler.distribution and the three implementations of
\* Distribution, random-distribution-helpers.go:19-21, 33-36, 48-51
NilDistribution == [kind |-> "nil", a |-> 0, b |-> 0]
ConstDistribution(val) == [kind |-> "const", a |-> val, b |-> 0]
EqualDistribution(min, max) == [kind |-> "equal", a |-> min, b |-> max]
NormalDistribution(mu, sigma) == [kind |-> "norm", a |-> mu, b |-> sigma]

\* an error return that follows an assignment of nil to the distribution
SetFailedCleared(dist) == [err |-> TRUE, dist |-> NilDistribution]

\* return fmt.Errorf(formatErr, ...), random-distribution-helpers.go:78, 82,
\* 88, 93, 97, 101, 105, 111, 115, 119, 124: every one of them comes before
\* the assignment to distSampler.distribution of its case
SetFailed(dist) == [err |-> TRUE, dist |-> dist]

\* distSampler.distribution = ...; return nil,
\* random-distribution-helpers.go:91, 107, 121, 128
SetDone(dist) == [err |-> FALSE, dist |-> dist]

\* DistributionSampler.Set, random-distribution-helpers.go:75-129, on a
\* sampler whose distribution is dist: the error and the distribution after
SetResult(dist, arg) ==
    IF Len(arg) < 2 THEN SetFailed(dist)
    ELSE IF Len(arg) # 2 THEN SetFailed(dist)
    ELSE LET kind == arg[1]
             params == arg[2]
         IN  CASE kind = "const" ->
                    IF Len(params) # 1 THEN SetFailed(dist)
                    ELSE LET v == parseDuration(params[1])
                         IN  IF v.err THEN SetFailed(dist)
                             ELSE SetDone(ConstDistribution(v.d))
               [] kind = "equal" ->
                    IF Len(params) # 2 THEN SetFailed(dist)
                    ELSE LET min == parseDuration(params[1])
                             max == ParseDuration(params[2])
                         IN  IF min.err THEN SetFailed(dist)
                             ELSE IF max.err THEN SetFailed(dist)
                             ELSE SetDone(EqualDistribution(min.d, max.d))
               [] kind = "norm" ->
                    IF Len(params) # 2 THEN SetFailed(dist)
                    ELSE LET mu == parseDuration(params[1])
                             sigma == parseDuration(params[2])
                         IN  IF mu.err THEN SetFailed(dist)
                             ELSE IF sigma.err THEN SetFailed(dist)
                             ELSE SetDone(NormalDistribution(mu.d, sigma.d))
               [] OTHER -> SetFailed(dist)

\* what Sample returned: nothing yet while the flags are read, nothing yet
\* after do_main has the sampler, a duration, or a panic of rand.Int63n
NoSample == [kind |-> "none", d |-> 0]
Ready == [kind |-> "ready", d |-> 0]
Drawn(d) == [kind |-> "value", d |-> d]
SamplePanic == [kind |-> "panic", d |-> 0]

\* Sample of the three distributions, random-distribution-helpers.go:23-25,
\* 38-40, 53-56: the results the random source can produce.  rand.Int63n(n)
\* panics for n <= 0 and returns one of 0..n-1 otherwise; a normal draw is
\* any number, here any within NormSpread of mu, when sigma is not zero.
Samples(dist) ==
    CASE dist.kind = "const" -> {Drawn(dist.a)}
      [] dist.kind = "equal" ->
            IF dist.b - dist.a <= 0 THEN {SamplePanic}
            ELSE {Drawn(dist.a + n) : n \in 0..(dist.b - dist.a - 1)}
      [] dist.kind = "norm" ->
            IF dist.b = 0 THEN {Drawn(dist.a)}
            ELSE {Drawn(dist.a + n) : n \in (0 - NormSpread)..NormSpread}
      [] OTHER -> {SamplePanic}

InitSampler ==
    /\ distribution = NilDistribution
    /\ setArg = NoValue
    /\ setErr = FALSE
    /\ sample = NoSample
    /\ hdist = NilDistribution

\* flag.Parse calls delaySampler.Set(value), main.go:27
Set(arg) ==
    /\ sample = NoSample
    /\ hdist' = distribution
    /\ setArg' = arg
    /\ setErr' = SetResult(distribution, arg).err
    /\ distribution' = SetResult(distribution, arg).dist
    /\ UNCHANGED sample
    /\ UNCHANGED <<poolVars, ctrVars, avgVars, lkVars, regVars, strVars, prsVars, opnVars>>

\* do_main, main.go:35-38: without a distribution the constant 0 is used
DefaultSampler ==
    /\ sample = NoSample
    /\ sample' = Ready
    /\ distribution' = IF distribution = NilDistribution
                       THEN ConstDistribution(0) ELSE distribution
    /\ UNCHANGED <<setArg, setErr, hdist>>
    /\ UNCHANGED <<poolVars, ctrVars, avgVars, lkVars, regVars, strVars, prsVars, opnVars>>

\* c.col.DelaySampler.distribution.Sample(), main.go:224
Sample ==
    /\ sample.kind \in {"ready", "value"}
    /\ sample' \in Samples(distribution)
    /\ UNCHANGED <<distribution, setArg, setErr, hdist>>
    /\ UNCHANGED <<poolVars, ctrVars, avgVars, lkVars, regVars, strVars, prsVars, opnVars>>

NextSampler ==
    \/ \E arg \in Values : Set(arg)
    \/ DefaultSampler
    \/ Sample

\* C38: a replacing request to /endpoints is atomic towards the tasks:
\* when the registry held an endpoint before the request and the request
\* holds a spec that parses without error, no nextEndpoint call that ends
\* while the request is served returns ErrorNoURLs.
C38_ReplaceAtomic ==
    (/\ rmethod = "POST"
     /\ rpc # "idle"
     /\ \E h \in HostNames : Len(hpre.urls[h]) > 0
     /\ \E k \in 1..Len(hall) : ~ParseURLArgument(hall[k]).err) =>
        \A s \in Selectors : sres[s] # ErrorNoURLs

(***************************************************************************)
(* Opening a stream on a stored endpoint (SpecOpen): RtmpEndpoint          *)
(* (src/rtmp-stream.go:30-35) and the connect step of OpenStream, in the   *)
(* version that dials a copy of the URL (src/rtmp-stream.go:153-178) and   *)
(* in the versions that write the URL they were given                      *)
(* (src/rtmp-stream.go:438-460, src/unnamed/part_000:131-166).             *)
(*                                                                         *)
(* The path of a URL is the sequence of its segments: <<>> is the empty    *)
(* path, <<"">> is "/", <<"live", "x">> is "/live/x" and <<"live", "">> is *)
(* "/live/".                                                               *)
(***************************************************************************)
Schemes == {"rtmp", "http"}

UrlPaths == {<<>>, <<"x">>, <<"live", "x">>, <<"live", "">>, <<"a", "live", "x">>}

\* the endpoints ParseURLArgument can store
RtmpEndpoints == [scheme : Schemes, path : UrlPaths, pixels : PixelChoices]

\* no endpoint stored yet
NoEndpoint == [scheme |-> "", path |-> <<>>, pixels |-> 0]

\* filepath.Split(path), rtmp-stream.go:157: everything up to and including
\* the last slash, and what follows it
Split(path) ==
    IF path = <<>>
    THEN [dir |-> <<>>, file |-> ""]
    ELSE [dir |-> SubSeq(path, 1, Len(path) - 1) \o <<"">>,
          file |-> path[Len(path)]]

\* connect, rtmp-stream.go:154-160: the URL is refused before any dial
ConnectRefused(u) ==
    \/ u.scheme # "rtmp"
    \/ Split(u.path).dir = <<>>
    \/ Split(u.path).file = ""

NotDialed == [result |-> "none", path |-> <<>>, name |-> ""]
Refused == [result |-> "refused", path |-> <<>>, name |-> ""]

\* rtmp.DialWithDialer, Connect and startStream on the path prefix of u and
\* its stream name, rtmp-stream.go:163-177, 114-117: the network decides
Dial(u, ok) ==
    [result |-> IF ok THEN "opened" ELSE "error",
     path |-> Split(u.path).dir,
     name |-> Split(u.path).file]

InitOpen ==
    /\ stored = NoEndpoint
    /\ hstored = NoEndpoint
    /\ dialed = NotDialed
    /\ nopen = 0

\* ParseURLArgument stores an endpoint, rtmp-stream.go:257-260
StoreEndpoint(e) ==
    /\ stored = NoEndpoint
    /\ stored' = e
    /\ hstored' = e
    /\ UNCHANGED <<dialed, nopen>>
    /\ UNCHANGED <<poolVars, ctrVars, avgVars, lkVars, regVars, strVars, prsVars, smpVars>>

\* OpenStream on the stored endpoint, rtmp-stream.go:105-124, with connect of
\* rtmp-stream.go:153-178: the path prefix is set on a copy of the URL
OpenStream ==
    /\ stored # NoEndpoint
    /\ nopen < MaxOpens
    /\ nopen' = nopen + 1
    /\ IF ConnectRefused(stored)
       THEN dialed' = Refused
       ELSE \E ok \in BOOLEAN : dialed' = Dial(stored, ok)
    /\ UNCHANGED <<stored, hstored>>
    /\ UNCHANGED <<poolVars, ctrVars, avgVars, lkVars, regVars, strVars, prsVars, smpVars>>

\* OpenStream with connect of rtmp-stream.go:438-460 (and OpenStream of
\* unnamed/part_000:131-166): url.Path = urlPathPrefix is assigned through
\* the pointer to the stored URL, before the dial
OpenStreamInPlace ==
    /\ stored # NoEndpoint
    /\ nopen < MaxOpens
    /\ nopen' = nopen + 1
    /\ IF ConnectRefused(stored)
       THEN /\ dialed' = Refused
            /\ UNCHANGED stored
       ELSE /\ \E ok \in BOOLEAN : dialed' = Dial(stored, ok)
            /\ stored' = [stored EXCEPT !.path = Split(stored.path).dir]
    /\ UNCHANGED hstored
    /\ UNCHANGED <<poolVars, ctrVars, avgVars, lkVars, regVars, strVars, prsVars, smpVars>>

NextOpen ==
    \/ \E e \in RtmpEndpoints : StoreEndpoint(e)
    \/ OpenStream
    \/ OpenStreamInPlace

(***************************************************************************)
(* Properties of ParseURLArgument (SpecParse).                             *)
(***************************************************************************)
\* the numbers of the template whose generated URL url.Parse accepts
Parsable(line) == {i \in line.lo..line.hi : i \notin line.bad}

\* C21 as stated: a template {{min max}} with min <= max yields exactly
\* max-min+1 endpoints, the k-th being the specification with the token
\* replaced by min+k-1, and a template with min > max is rejected without
\* any endpoint.
C21_ExactExpansion ==
    /\ (urlArg.tmpl /\ urlArg.lo <= urlArg.hi) =>
          /\ Len(parsed.urls) = urlArg.hi - urlArg.lo + 1
          /\ \A k \in 1..Len(parsed.urls) :
                parsed.urls[k] = <<urlArg.host, urlArg.lo + k - 1>>
    /\ (urlArg.tmpl /\ urlArg.lo > urlArg.hi) =>
          parsed.err /\ parsed.urls = <<>>

\* C21, amended: a template {{min max}} with min <= max is expanded to one
\* URL per number of min..max; the endpoints returned are those of the URLs
\* that parse, in increasing order of their number, with an error beside
\* them exactly if some URL did not parse, so there are max-min+1 endpoints
\* and no error when all of them parse; a template with min > max is
\* rejected without any endpoint.
C21_ExpansionOfParsable ==
    /\ (urlArg.tmpl /\ urlArg.lo <= urlArg.hi) =>
          /\ Len(parsed.urls) = Cardinality(Parsable(urlArg))
          /\ \A k \in 1..Len(parsed.urls) :
                /\ parsed.urls[k][1] = urlArg.host
                /\ parsed.urls[k][2] \in Parsable(urlArg)
          /\ \A j \in 1..Len(parsed.urls), k \in 1..Len(parsed.urls) :
                j < k => parsed.urls[j][2] < parsed.urls[k][2]
          /\ parsed.err <=> Parsable(urlArg) # urlArg.lo..urlArg.hi
          /\ Parsable(urlArg) = urlArg.lo..urlArg.hi =>
                Len(parsed.urls) = urlArg.hi - urlArg.lo + 1
    /\ (urlArg.tmpl /\ urlArg.lo > urlArg.hi) =>
          parsed.err /\ parsed.urls = <<>>

\* a template of three numbers, all parsable, has been expanded
C21_Witness ==
    /\ urlArg.tmpl
    /\ urlArg.hi - urlArg.lo = 2
    /\ Parsable(urlArg) = urlArg.lo..urlArg.hi
    /\ Len(parsed.urls) = 3

(***************************************************************************)
(* Properties of the restart-delay sampler (SpecSampler).                  *)
(***************************************************************************)
\* a text that is a duration and not negative
NonNegative(text) == ~ParseDuration(text).err /\ ParseDuration(text).d >= 0

Duration(text) == ParseDuration(text).d

\* the well-formed values: const:<d>, equal:<min>,<max> with min <= max and
\* norm:<mean>,<std>, every parameter a duration that is not negative
WellFormed(arg) ==
    /\ Len(arg) = 2
    /\ \/ arg[1] = "const" /\ Len(arg[2]) = 1 /\ NonNegative(arg[2][1])
       \/ /\ arg[1] = "equal" /\ Len(arg[2]) = 2
          /\ NonNegative(arg[2][1]) /\ NonNegative(arg[2][2])
          /\ Duration(arg[2][1]) <= Duration(arg[2][2])
       \/ /\ arg[1] = "norm" /\ Len(arg[2]) = 2
          /\ NonNegative(arg[2][1]) /\ NonNegative(arg[2][2])

\* the variant a well-formed value describes
Described(arg) ==
    CASE arg[1] = "const" -> ConstDistribution(Duration(arg[2][1]))
      [] arg[1] = "equal" -> EqualDistribution(Duration(arg[2][1]), Duration(arg[2][2]))
      [] OTHER -> NormalDistribution(Duration(arg[2][1]), Duration(arg[2][2]))

\* C22: Set accepts exactly the well-formed values and then holds the
\* variant the value describes; every other value returns an error.
C22_AcceptsExactlyWellFormed ==
    (sample = NoSample /\ setArg # NoValue) =>
        /\ ~setErr <=> WellFormed(setArg)
        /\ ~setErr => distribution = Described(setArg)

\* C23: a Set that returned an error left distSampler.distribution as it
\* was before the call.
C23_FailedSetKeepsDistribution ==
    (sample = NoSample /\ setArg # NoValue /\ setErr) => distribution = hdist

\* a Set failed on a sampler that an earlier Set had configured
C23_Witness ==
    /\ sample = NoSample
    /\ setErr
    /\ hdist # NilDistribution
    /\ distribution = hdist

\* C24: every duration Sample returns is at least 0.
C24_SamplesNotNegative == sample.kind = "value" => sample.d >= 0

\* C40: for an equal distribution that Set accepted, Sample completes and
\* returns a duration between min and max.
C40_EqualSamplesInRange ==
    (distribution.kind = "equal" /\ sample.kind \in {"value", "panic"}) =>
        /\ sample.kind = "value"
        /\ distribution.a <= sample.d /\ sample.d <= distribution.b

(***************************************************************************)
(* Properties of the pool (SpecPool).                                      *)
(***************************************************************************)
\* positions inside the body of SetNumberOfStreams, the lock held
BodyPcs == {"stop_signal", "stop_close", "stop_wait", "check", "spawn", "return"}

InBody == {p \in Callers : cpc[p] \in BodyPcs}

\* C1 (as stated): when a call SetNumberOfStreams(target) returns, the list
\* of running streams holds exactly max(target, 0) workers.
C1_SizeIsTarget ==
    \A p \in Callers :
        cpc[p] = "return" => Len(runningStreams) = Max(hreq[p], 0)

\* C1 (amended): when a call SetNumberOfStreams(target) returns, the list
\* holds exactly max(target, 0) workers, except that a call which finds the
\* global stop flag set when it would have to grow the list returns with the
\* list as it found it.
C1_SizeIsTargetUnlessStopped ==
    \A p \in Callers :
        cpc[p] = "return" =>
            IF hskip[p]
            THEN /\ stopper
                 /\ Len(runningStreams) = hlen[p]
                 /\ hlen[p] < Max(hreq[p], 0)
            ELSE Len(runningStreams) = Max(hreq[p], 0)

\* a call with a negative target returns after it emptied a non-empty list
C1_Witness ==
    \E p \in Callers :
        /\ cpc[p] = "return"
        /\ hreq[p] < 0
        /\ hlen[p] > 0
        /\ runningStreams = <<>>

\* C2: once Close() has returned, the list of running streams is empty and
\* every worker task has exited, whatever SetNumberOfStreams calls follow or
\* were running concurrently with Close().
C2_EmptyAfterClose ==
    cpc[Main] = "closed" =>
        /\ runningStreams = <<>>
        /\ \A w \in Slots : wpc[w] \in {"none", "exited"}

\* Close() has returned and a call that asked for growth before the stop
\* flag was set is returning
C2_Witness ==
    /\ cpc[Main] = "closed"
    /\ \E p \in Api : cpc[p] = "return" /\ hreq[p] > 0 /\ ~hstopped[p]

\* C3: at most one SetNumberOfStreams call is inside its body at any time,
\* and every step that changes the list of running streams is taken by the
\* one caller that holds the lock.
C3_OneResizeAtATime ==
    [][/\ Cardinality(InBody') <= 1
       /\ runningStreams' # runningStreams =>
              \E p \in Callers : streamsLock' = {p} /\ cpc'[p] \in BodyPcs]_vars

\* one caller is spawning streams while another waits for the lock
C3_Witness ==
    \E p, q \in Callers :
        /\ p # q
        /\ cpc[p] = "spawn"
        /\ cpc[q] = "lock"
        /\ runningStreams # <<>>

\* C4: when SetNumberOfStreams returns after reducing the pool, every worker
\* it removed has its stop signal set, has no open stream and has exited.
C4_ShrinkIsSynchronous ==
    \A p \in Callers :
        cpc[p] = "return" =>
            \A w \in removed[p] :
                /\ wstopper[w]
                /\ conn[w] # "open"
                /\ wpc[w] = "exited"

\* a call returns after removing a worker that had opened a stream
C4_Witness ==
    \E p \in Callers :
        /\ cpc[p] = "return"
        /\ \E w \in removed[p] : conn[w] = "closed"

\* C5 (as stated): a SetNumberOfStreams call issued after the global stop
\* flag was set changes neither the list of running streams nor any worker.
C5_NoOpAfterStop ==
    [][\A p \in Api :
          (hstopped[p] /\ SetNumberOfStreams(p)) =>
              UNCHANGED <<runningStreams, workerVars>>]_vars

\* C5 (amended): a SetNumberOfStreams call issued after the global stop flag
\* was set never adds a worker; it changes nothing when the list is not
\* longer than its target, and otherwise it only shrinks the list.
C5_NoGrowthAfterStop ==
    [][\A p \in Callers :
          (hstopped[p] /\ SetNumberOfStreams(p)) =>
              /\ Len(runningStreams') <= Len(runningStreams)
              /\ \A w \in Slots : wpc[w] = "none" => wpc'[w] = "none"
              /\ (removed[p] = {} /\ removed'[p] = {}) =>
                     UNCHANGED <<runningStreams, workerVars>>]_vars

\* a call issued after the stop flag was set returns without having grown
\* the list it found too short
C5_Witness ==
    \E p \in Api : cpc[p] = "return" /\ hstopped[p] /\ hskip[p]

\* worker w has incremented receivingConnections and not yet decremented it
Receiving(w) ==
    /\ received[w]
    /\ wpc[w] \in {"pixinc", "recvcheck", "recv", "errinc", "closeinc",
                   "d_pixels", "d_receiving"}

\* worker w has added its pixels to the gauge and not yet subtracted them
PixelsCounted(w) ==
    /\ received[w]
    /\ wpc[w] \in {"recvcheck", "recv", "errinc", "closeinc", "d_pixels"}

RECURSIVE SumPixels(_)
SumPixels(S) ==
    IF S = {} THEN 0
    ELSE LET w == CHOOSE x \in S : TRUE
         IN  wpixels[w] + SumPixels(S \ {w})

InitCounter ==
    /\ current = 0
    /\ previous = 0
    /\ ireg = [t \in Tasks |-> 0 - 1]
    /\ done = [t \in Tasks |-> 0]
    /\ tpc = "idle"
    /\ tcur = 0
    /\ ret = [current |-> 0, diff |-> 0, secs |-> 1]
    /\ hsum = 0
    /\ htotal = 0
    /\ hdelta = 0
    /\ hexpect = 0
    /\ hdeltas = 0
    /\ hcalls = 0
    /\ hbusy = FALSE

\* atomic.AddUint64(&c.current, val), part_000:34
AddUint64(cur, val) == (cur + val) % Modulus

\* Increment(val) by task t, part_000:33-35: one indivisible step
Increment(t, val) ==
    /\ htotal + val < 2 * Modulus
    /\ current' = AddUint64(current, val)
    /\ hsum' = hsum + val
    /\ htotal' = htotal + val
    /\ UNCHANGED <<previous, ireg, tpc, tcur, ret, hdelta, hexpect, hdeltas,
                   hcalls, hbusy>>

\* a worker's Increment call with any amount (main.go:245-282)
AnyIncrement(t, val) ==
    /\ Increment(t, val)
    /\ UNCHANGED done
    /\ UNCHANGED <<poolVars, avgVars, lkVars, regVars, strVars, prsVars, smpVars, opnVars>>

\* Increment(1) as a plain c.current++: a load, then a store, in two steps
TaskIncrementRacy(t) ==
    /\ done[t] < MIncs
    /\ IF ireg[t] < 0
       THEN /\ ireg' = [ireg EXCEPT ![t] = current]
            /\ UNCHANGED <<current, done, hsum, htotal>>
       ELSE /\ current' = AddUint64(ireg[t], 1)
            /\ ireg' = [ireg EXCEPT ![t] = 0 - 1]
            /\ done' = [done EXCEPT ![t] = done[t] + 1]
            /\ hsum' = hsum + 1
            /\ htotal' = htotal + 1
    /\ UNCHANGED <<previous, tpc, tcur, ret, hdelta, hexpect, hdeltas, hcalls, hbusy>>
    /\ UNCHANGED <<poolVars, avgVars, lkVars, regVars, strVars, prsVars, smpVars, opnVars>>

\* one of the MIncs calls Increment(1) of task t
TaskIncrement(t) ==
    /\ done[t] < MIncs
    /\ Increment(t, 1)
    /\ done' = [done EXCEPT ![t] = done[t] + 1]
    /\ UNCHANGED <<poolVars, avgVars, lkVars, regVars, strVars, prsVars, smpVars, opnVars>>

\* ComputeDiff: current := atomic.LoadUint64(&c.current), part_000:38
ComputeDiffLoad ==
    /\ tpc = "idle"
    /\ tcur' = current
    /\ tpc' = "loaded"
    /\ hexpect' = hsum
    /\ hsum' = 0
    /\ hbusy' = (\E t \in Tasks : done[t] < MIncs)
    /\ UNCHANGED <<current, previous, ireg, done, ret, htotal, hdelta, hdeltas, hcalls>>
    /\ UNCHANGED <<poolVars, avgVars, lkVars, regVars, strVars, prsVars, smpVars, opnVars>>

\* c.previous set from a second load of c.current
NewPreviousReread == current

\* the value ComputeDiff stores as c.previous, part_000:40
NewPrevious == tcur

\* diff := current - previous; on current < previous
\* diff = math.MaxUint64 - previous + current, part_000:41-45
Diff(cur, prev) ==
    IF cur < prev
    THEN (MaxUint - prev + cur) % Modulus
    ELSE (cur - prev) % Modulus

\* ComputeDiff, part_000:39-47: the rest of the call, on the locals; the
\* rate returned is diff / secs
ComputeDiffFinish(secs) ==
    /\ tpc = "loaded"
    /\ previous' = NewPrevious
    /\ ret' = [current |-> tcur, diff |-> Diff(tcur, previous), secs |-> secs]
    /\ hdelta' = Diff(tcur, previous)
    /\ hdeltas' = hdeltas + Diff(tcur, previous)
    /\ hcalls' = IF hcalls < 2 THEN hcalls + 1 ELSE hcalls
    /\ tpc' = "idle"
    /\ tcur' = 0
    /\ UNCHANGED <<current, ireg, done, hsum, htotal, hexpect, hbusy>>
    /\ UNCHANGED <<poolVars, avgVars, lkVars, regVars, strVars, prsVars, smpVars, opnVars>>

NextCounter ==
    \/ \E t \in Tasks, val \in 1..MaxInc : AnyIncrement(t, val)
    \/ ComputeDiffLoad
    \/ \E secs \in 1..MaxSecs : ComputeDiffFinish(secs)

NextTasks ==
    \/ \E t \in Tasks : TaskIncrement(t)
    \/ ComputeDiffLoad
    \/ \E secs \in 1..MaxSecs : ComputeDiffFinish(secs)

(***************************************************************************)
(* AveragingCounter (src/unnamed/part_000:50-74).  Values are whole        *)
(* numbers of a time unit; the quotient value / float64(count) is kept as  *)
(* the fraction <<value, count>>.                                          *)
(***************************************************************************)
InitAvg ==
    /\ count = 0
    /\ value = 0
    /\ apc = "idle"
    /\ lcount = 0
    /\ lvalue = 0
    /\ avg = <<0, 1>>
    /\ hadded = <<>>
    /\ htaken = <<>>
    /\ hreturns = 0

\* Add(val), part_000:56-61, all of it under avg.lock
Add(val) ==
    /\ count < MaxAdds
    /\ count' = count + 1
    /\ value' = value + val
    /\ hadded' = Append(hadded, val)
    /\ UNCHANGED <<apc, lcount, lvalue, avg, htaken, hreturns>>
    /\ UNCHANGED <<poolVars, ctrVars, lkVars, regVars, strVars, prsVars, smpVars, opnVars>>

\* ComputeAvg without avg.value = 0
ComputeAvgLockedKeepsValue ==
    /\ apc = "idle"
    /\ lcount' = count
    /\ lvalue' = value
    /\ count' = 0
    /\ apc' = "unlocked"
    /\ htaken' = hadded
    /\ hadded' = <<>>
    /\ UNCHANGED <<value, avg, hreturns>>
    /\ UNCHANGED <<poolVars, ctrVars, lkVars, regVars, strVars, prsVars, smpVars, opnVars>>

\* ComputeAvg, part_000:64-69: the read and reset under avg.lock
ComputeAvgLocked ==
    /\ apc = "idle"
    /\ lcount' = count
    /\ lvalue' = value
    /\ count' = 0
    /\ value' = 0
    /\ apc' = "unlocked"
    /\ htaken' = hadded
    /\ hadded' = <<>>
    /\ UNCHANGED <<avg, hreturns>>
    /\ UNCHANGED <<poolVars, ctrVars, lkVars, regVars, strVars, prsVars, smpVars, opnVars>>

\* ComputeAvg, part_000:70-73: the value returned
ComputeAvgReturn ==
    /\ apc = "unlocked"
    /\ avg' = IF lcount = 0 THEN <<0, 1>> ELSE <<lvalue, lcount>>
    /\ apc' = "idle"
    /\ lcount' = 0
    /\ lvalue' = 0
    /\ hreturns' = IF hreturns < 2 THEN hreturns + 1 ELSE hreturns
    /\ UNCHANGED <<count, value, hadded, htaken>>
    /\ UNCHANGED <<poolVars, ctrVars, lkVars, regVars, strVars, prsVars, smpVars, opnVars>>

NextAvg ==
    \/ \E val \in 0..MaxVal : Add(val)
    \/ ComputeAvgLocked
    \/ ComputeAvgReturn


(***************************************************************************)
(* AveragingCounter with its mutex spelled out (SpecAvgLock): Adders call  *)
(* Add concurrently with the task that calls ComputeAvg, and every         *)
(* statement of part_000:56-69 is a step of its own.                       *)
(***************************************************************************)
InitAvgLock ==
    /\ lock = "free"
    /\ addpc = [t \in Adders |-> "idle"]
    /\ addval = [t \in Adders |-> 0]
    /\ hallc = 0
    /\ hallv = 0
    /\ hresc = 0
    /\ hresv = 0

\* a Lock() that returns although the mutex is held
AvgLockFreeAlways == TRUE

\* avg.lock.Lock() returns only when the mutex is free, part_000:57, 64
AvgLockFree == lock = "free"

\* Add: avg.lock.Lock(), part_000:57
AddLock(t, val) ==
    /\ addpc[t] = "idle"
    /\ hallc < MaxAdds
    /\ AvgLockFree
    /\ lock' = "add"
    /\ addpc' = [addpc EXCEPT ![t] = "count"]
    /\ addval' = [addval EXCEPT ![t] = val]
    /\ UNCHANGED <<hallc, hallv, hresc, hresv>>
    /\ UNCHANGED <<poolVars, ctrVars, avgVars, regVars, strVars, prsVars, smpVars, opnVars>>

\* Add: avg.count++, part_000:59
AddCount(t) ==
    /\ addpc[t] = "count"
    /\ count' = count + 1
    /\ hallc' = hallc + 1
    /\ addpc' = [addpc EXCEPT ![t] = "value"]
    /\ UNCHANGED <<lock, addval, hallv, hresc, hresv>>
    /\ UNCHANGED <<value, apc, lcount, lvalue, avg, hadded, htaken, hreturns>>
    /\ UNCHANGED <<poolVars, ctrVars, regVars, strVars, prsVars, smpVars, opnVars>>

\* Add: avg.value += val, part_000:60
AddValue(t) ==
    /\ addpc[t] = "value"
    /\ value' = value + addval[t]
    /\ hallv' = hallv + addval[t]
    /\ hadded' = Append(hadded, addval[t])
    /\ addpc' = [addpc EXCEPT ![t] = "unlock"]
    /\ UNCHANGED <<lock, addval, hallc, hresc, hresv>>
    /\ UNCHANGED <<count, apc, lcount, lvalue, avg, htaken, hreturns>>
    /\ UNCHANGED <<poolVars, ctrVars, regVars, strVars, prsVars, smpVars, opnVars>>

\* Add: the deferred avg.lock.Unlock(), part_000:58
AddUnlock(t) ==
    /\ addpc[t] = "unlock"
    /\ lock' = "free"
    /\ addpc' = [addpc EXCEPT ![t] = "idle"]
    /\ addval' = [addval EXCEPT ![t] = 0]
    /\ UNCHANGED <<hallc, hallv, hresc, hresv>>
    /\ UNCHANGED <<poolVars, ctrVars, avgVars, regVars, strVars, prsVars, smpVars, opnVars>>

\* ComputeAvg: avg.lock.Lock(), part_000:64
AvgLock ==
    /\ apc = "idle"
    /\ AvgLockFree
    /\ lock' = "avg"
    /\ apc' = "read_count"
    /\ UNCHANGED <<addpc, addval, hallc, hallv, hresc, hresv>>
    /\ UNCHANGED <<count, value, lcount, lvalue, avg, hadded, htaken, hreturns>>
    /\ UNCHANGED <<poolVars, ctrVars, regVars, strVars, prsVars, smpVars, opnVars>>

\* ComputeAvg: count := avg.count, part_000:65
AvgReadCount ==
    /\ apc = "read_count"
    /\ lcount' = count
    /\ hresc' = hresc + count
    /\ apc' = "read_value"
    /\ UNCHANGED <<lock, addpc, addval, hallc, hallv, hresv>>
    /\ UNCHANGED <<count, value, lvalue, avg, hadded, htaken, hreturns>>
    /\ UNCHANGED <<poolVars, ctrVars, regVars, strVars, prsVars, smpVars, opnVars>>

\* ComputeAvg: value := avg.value, part_000:66
AvgReadValue ==
    /\ apc = "read_value"
    /\ lvalue' = value
    /\ hresv' = hresv + value
    /\ apc' = "reset_count"
    /\ UNCHANGED <<lock, addpc, addval, hallc, hallv, hresc>>
    /\ UNCHANGED <<count, value, lcount, avg, hadded, htaken, hreturns>>
    /\ UNCHANGED <<poolVars, ctrVars, regVars, strVars, prsVars, smpVars, opnVars>>

\* ComputeAvg: avg.count = 0, part_000:67
AvgResetCount ==
    /\ apc = "reset_count"
    /\ count' = 0
    /\ apc' = "reset_value"
    /\ UNCHANGED <<value, lcount, lvalue, avg, hadded, htaken, hreturns>>
    /\ UNCHANGED <<poolVars, ctrVars, lkVars, regVars, strVars, prsVars, smpVars, opnVars>>

\* ComputeAvg: avg.value = 0, part_000:68
AvgResetValue ==
    /\ apc = "reset_value"
    /\ value' = 0
    /\ htaken' = hadded
    /\ hadded' = <<>>
    /\ apc' = "unlock"
    /\ UNCHANGED <<count, lcount, lvalue, avg, hreturns>>
    /\ UNCHANGED <<poolVars, ctrVars, lkVars, regVars, strVars, prsVars, smpVars, opnVars>>

\* ComputeAvg: avg.lock.Unlock(), part_000:69
AvgUnlock ==
    /\ apc = "unlock"
    /\ lock' = "free"
    /\ apc' = "unlocked"
    /\ UNCHANGED <<addpc, addval, hallc, hallv, hresc, hresv>>
    /\ UNCHANGED <<count, value, lcount, lvalue, avg, hadded, htaken, hreturns>>
    /\ UNCHANGED <<poolVars, ctrVars, regVars, strVars, prsVars, smpVars, opnVars>>

NextAvgLock ==
    \/ \E t \in Adders, val \in 0..MaxVal : AddLock(t, val)
    \/ \E t \in Adders : AddCount(t)
    \/ \E t \in Adders : AddValue(t)
    \/ \E t \in Adders : AddUnlock(t)
    \/ AvgLock
    \/ AvgReadCount
    \/ AvgReadValue
    \/ AvgResetCount
    \/ AvgResetValue
    \/ AvgUnlock
    \/ ComputeAvgReturn

(***************************************************************************)
(* Properties of the task of a running stream (SpecPool).                  *)
(***************************************************************************)
\* the task of slot w takes a step of handleStream or start
Moved(w) == wpc'[w] # wpc[w] /\ wpc[w] \notin {"none", "exited"}

\* the statements of the task in an order in which a task whose stopper is
\* stopped can only advance
StopOrder ==
    <<"delay", "open", "assign", "backoff", "openerr", "opened", "openconn",
      "recv", "recvinc", "pixinc", "recvcheck", "errinc", "closeinc",
      "d_pixels", "d_receiving", "d_open", "d_close", "loop", "exited">>

Rank(pos) == CHOOSE k \in 1..Len(StopOrder) : StopOrder[k] = pos

C25_Step ==
    \A w \in Slots :
        /\ (wpc'[w] = "exited" /\ wpc[w] # "exited") => wstopper[w] /\ wpc[w] = "loop"
        /\ (Moved(w) /\ wpc[w] \in {"openerr", "backoff", "d_close"}) => wpc'[w] = "loop"
        /\ (Moved(w) /\ wpc[w] \in {"errinc", "closeinc", "d_pixels", "d_receiving", "d_open"})
               => wpc'[w] \in {"closeinc", "d_pixels", "d_receiving", "d_open", "d_close"}
        /\ (Moved(w) /\ wpc[w] = "loop" /\ ~wstopper[w]) => wpc'[w] = "delay"

C25_Running ==
    \A w \in Slots :
        /\ wpc[w] = "openerr" => ENABLED WOpenErr(w)
        /\ wpc[w] = "backoff" => ENABLED WBackoff(w)
        /\ wpc[w] = "d_close" => ENABLED WDeferClose(w)
        /\ wpc[w] = "loop" => ENABLED WLoop(w)
        /\ wpc[w] = "delay" => ENABLED WDelay(w)

C25_Cycles ==
    \A w \in Slots :
        (wpc[w] \in {"openerr", "backoff", "errinc", "closeinc"})
            ~> (wpc[w] = "delay" \/ wstopper[w])

\* C25: no failure ends a task: after an open error, a back-off on
\* ErrorNoURLs and the end of a stream by EOF or error the task is back at
\* the head of its loop, from where it sleeps again unless its stopper is
\* stopped; none of these steps can be blocked, so the task comes to its
\* next sleep unless it is stopped; and a task exits only at the head of the
\* loop with its own stopper stopped.
C25_FailuresDoNotEndWorker == []C25_Running /\ [][C25_Step]_vars /\ C25_Cycles

\* after an open error and a stream that ended, a task whose stopper is not
\* stopped sleeps before its next attempt
C25_Witness ==
    \E w \in Slots :
        /\ wpc[w] = "delay" /\ ~wstopper[w]
        /\ attempts = MaxAttempts /\ errors >= 1 /\ closed >= 1

C26_Step ==
    \A w \in Slots :
        /\ (Moved(w) /\ wpc'[w] = "open") => wpc[w] = "delay"
        /\ (Moved(w) /\ wstopper[w]) => Rank(wpc'[w]) > Rank(wpc[w])

C26_Wakes ==
    \A w \in Slots :
        /\ (wpc[w] = "delay" /\ wstopper[w]) => ENABLED WInterrupt(w)
        /\ (wstopper[w] /\ wpc[w] \notin {"none", "exited"}) => ENABLED Worker(w)

C26_Terminates ==
    \A w \in Slots :
        (wpc[w] = "delay" /\ wstopper[w]) ~> (wpc[w] \in {"exited", "none"})

\* C26: a task comes to an open attempt only out of the sleep of a sampled
\* delay; while it sleeps with its stopper stopped the sleep can end without
\* the timer; and a task whose stopper is stopped terminates: it can always
\* take a step, each of its steps brings it nearer to its exit, and it
\* exits.
C26_InterruptibleDelay == []C26_Wakes /\ [][C26_Step]_vars /\ C26_Terminates

\* the stopper of a task is stopped while the task sleeps its delay
C26_Witness == \E w \in Slots : wpc[w] = "delay" /\ wstopper[w]

C27_Step ==
    \A w \in Slots :
        /\ (Moved(w) /\ wpc[w] = "assign" /\ res[w] = "nourls") =>
               wpc'[w] = "backoff" /\ UNCHANGED colCounters
        /\ (Moved(w) /\ wpc[w] = "backoff") =>
               wpc'[w] = "loop" /\ UNCHANGED colCounters

C27_Wakes ==
    \A w \in Slots : (wpc[w] = "backoff" /\ wstopper[w]) => ENABLED WInterrupt(w)

\* C27: on ErrorNoURLs the task changes no counter and no gauge, sleeps the
\* back-off, which its stopper can end, and returns to the head of its loop.
C27_NoURLsBacksOff == []C27_Wakes /\ [][C27_Step]_vars

\* a task sleeps the back-off and no counter has been touched
C27_Witness ==
    \E w \in Slots :
        /\ wpc[w] = "backoff"
        /\ errors = 0 /\ opened = 0 /\ closed = 0 /\ openConnections = 0

\* C28: on an error of OpenStream other than ErrorNoURLs the task adds 1 to
\* errors, leaves opened, closed and the gauges as they are and returns to
\* the head of its loop, from where it sleeps the next delay unless its
\* stopper is stopped.
C28_OpenErrorCounted ==
    [][\A w \in Slots :
          /\ (Moved(w) /\ wpc[w] = "assign" /\ res[w] = "err") =>
                 wpc'[w] = "openerr" /\ UNCHANGED colCounters
          /\ (Moved(w) /\ wpc[w] = "openerr") =>
                 /\ errors' = errors + 1
                 /\ UNCHANGED <<opened, closed, openConnections,
                                receivingConnections, pixels>>
                 /\ wpc'[w] = "loop"
          /\ (Moved(w) /\ wpc[w] = "loop" /\ ~wstopper[w]) => wpc'[w] = "delay"]_vars

\* the only open attempt so far failed and the task sleeps again
C28_Witness ==
    \E w \in Slots :
        /\ wpc[w] = "delay"
        /\ attempts = 1 /\ errors = 1 /\ opened = 0 /\ closed = 0

\* the task of slot w has counted its stream in opened and may still count
\* it in closed
InStream(w) ==
    wpc[w] \in {"openconn", "recvcheck", "recv", "recvinc", "pixinc", "errinc",
                "closeinc"}

C29_Step ==
    \A w \in Slots :
        /\ (Moved(w) /\ wpc[w] = "recv") =>
               /\ UNCHANGED colCounters
               /\ wpc'[w] \in {AfterReceive(w, Receive(ev)) : ev \in ReceiveEvents}
        /\ (Moved(w) /\ wpc[w] = "errinc") =>
               /\ errors' = errors + 1
               /\ UNCHANGED <<opened, closed>>
               /\ wpc'[w] = "closeinc"
        /\ (Moved(w) /\ wpc[w] = "closeinc") =>
               /\ closed' = closed + 1
               /\ UNCHANGED <<opened, errors>>
               /\ wpc'[w] \in {"d_pixels", "d_open"}
        /\ (Moved(w) /\ wpc[w] \in {"d_pixels", "d_receiving", "d_open", "d_close"}) =>
               /\ UNCHANGED <<opened, closed, errors>>
               /\ wpc'[w] \in {"d_receiving", "d_open", "d_close", "loop"}

C29_Counted ==
    /\ closed + Cardinality({w \in Slots : InStream(w)}) <= opened
    /\ closed <= opened
    /\ \A w \in Slots : wpc[w] = "recv" =>
          /\ AfterReceive(w, Receive("eof")) = "closeinc"
          /\ \A ev \in {"closed", "unexpected"} :
                AfterReceive(w, Receive(ev)) = "errinc"

\* C29: io.EOF from Receive leads to the increment of closed alone, any
\* other error to the increment of errors and then of closed, each by 1, and
\* from there through the deferred calls back to the head of the loop; every
\* stream counted in opened is counted in closed at most once, so closed
\* never exceeds opened.
C29_StreamEndCounted == []C29_Counted /\ [][C29_Step]_vars

\* the only stream opened so far ended with an error and its task is back at
\* the head of the loop
C29_Witness ==
    \E w \in Slots :
        /\ wpc[w] = "loop"
        /\ attempts = 1 /\ opened = 1 /\ closed = 1 /\ errors = 1

\* C30: a Receive that ends by the timeout is handled like one that ends by
\* StreamEOF: the task goes on to the increment of closed without one of
\* errors.
C30_TimeoutLikeEOF ==
    \A w \in Slots : wpc[w] = "recv" =>
        AfterReceive(w, Receive("timeout")) = AfterReceive(w, Receive("eof"))

\* C31: opening a stream does not modify the stored endpoint: after any
\* number of OpenStream calls its URL and pixels are what was parsed, and a
\* stream that was opened is on the path prefix and stream name of the URL
\* that was parsed.
C31_OpenKeepsEndpoint ==
    /\ stored = hstored
    /\ dialed.result \in {"opened", "error"} =>
           /\ dialed.path = Split(hstored.path).dir
           /\ dialed.name = Split(hstored.path).file

\* C32: a task whose stopper is stopped starts no open attempt and does not
\* increment opened, also when the stop came during its delay or back-off.
C32_NoOpenAfterStop ==
    [][\A w \in Slots :
          (Moved(w) /\ wstopper[w]) => (wpc'[w] # "open" /\ opened' = opened)]_vars

\* C33: no task is started while the stop flag of the collector is set.
C33_NoSpawnWhenStopped ==
    [][\A w \in Slots : (wpc[w] = "none" /\ wpc'[w] = "loop") => ~stopper]_vars

\* a call of SetNumberOfStreams by caller p is in progress
InSetNumberOfStreams(p) ==
    cpc[p] \in {"lock", "stop_signal", "stop_close", "stop_wait", "check",
                "spawn", "return"}

\* C34: every call of SetNumberOfStreams, that of Close among them, returns:
\* the caller gets streamsLock, every task it stops exits, and the call
\* leaves the lock free for the next caller.
C34_CallsReturn ==
    \A p \in Callers : InSetNumberOfStreams(p) ~> ~InSetNumberOfStreams(p)

\* Close waits for a task that is inside a stream while a request to
\* /streams waits for the lock
C34_Witness ==
    /\ cpc[Main] = "stop_wait" /\ stopper
    /\ \E w \in Slots : w = Head(toClose[Main]) /\ wpc[w] = "recv"
    /\ \E p \in Api : cpc[p] = "lock"

\* the task of slot w has incremented openConnections and not yet decremented it
OpenCounted(w) ==
    wpc[w] \in {"recvcheck", "recv", "recvinc", "pixinc", "errinc", "closeinc",
                "d_pixels", "d_receiving", "d_open"}

\* C35: 0 <= receivingConnections <= openConnections <= number of tasks that
\* have not exited, and each task counts at most once in each gauge: the
\* gauges are the numbers of tasks between their increment and decrement.
C35_GaugesOrdered ==
    /\ 0 <= receivingConnections
    /\ receivingConnections <= openConnections
    /\ openConnections <= Cardinality({w \in Slots : wpc[w] \notin {"none", "exited"}})
    /\ openConnections = Cardinality({w \in Slots : OpenCounted(w)})
    /\ receivingConnections = Cardinality({w \in Slots : Receiving(w)})
    /\ \A w \in Slots : Receiving(w) => OpenCounted(w)

\* two streams are open and one of them has received data
C35_Witness == openConnections = 2 /\ receivingConnections = 1

\* the task of slot w is between its increment of opened and the return of
\* that handleStream call
InCall(w) ==
    wpc[w] \in {"openconn", "recvcheck", "recv", "recvinc", "pixinc", "errinc",
                "closeinc", "d_pixels", "d_receiving", "d_open", "d_close"}

\* C36: whenever no task is between its increment of opened and the return
\* of handleStream, opened - closed = openConnections; once all tasks have
\* exited, opened = closed and openConnections = 0.
C36_AccountingBalances ==
    /\ (\A w \in Slots : ~InCall(w)) => opened - closed = openConnections
    /\ (\A w \in Slots : wpc[w] \in {"none", "exited"}) =>
           opened = closed /\ openConnections = 0

\* C37: a Receive on a stream that stop() has closed does not lead to the
\* increment of errors.
C37_StopNotAnError ==
    [][\A w \in Slots :
          (wpc[w] = "recv" /\ wstopper[w] /\ conn[w] = "closed") =>
              wpc'[w] # "errinc"]_vars

\* the statements of handleStream between the return of OpenStream with a
\* stream and the deferred Close
Holding ==
    {"assign", "opened", "openconn", "recvcheck", "recv", "recvinc", "pixinc",
     "errinc", "closeinc", "d_pixels", "d_receiving", "d_open", "d_close"}

\* C39: the connection a task opened is closed when its handleStream call
\* has returned, so before the task opens again or exits, and the tasks a
\* call of SetNumberOfStreams (that of Close among them) has removed hold no
\* open connection when the call returns.
C39_NoHandleLeak ==
    /\ \A w \in Slots : conn[w] = "open" => wpc[w] \in Holding
    /\ \A p \in Callers : cpc[p] = "return" =>
           \A w \in removed[p] : conn[w] # "open"

\* Close returns after it removed a task whose stream was open when the stop
\* flag was set
C39_Witness ==
    /\ cpc[Main] = "return" /\ stopper
    /\ \E w \in removed[Main] : conn[w] = "closed" /\ cstream[w] = "cur"

(***************************************************************************)
(* Properties of the counters (SpecCounter, SpecTasks, SpecAvg).           *)
(***************************************************************************)
\* C7: the delta ComputeDiff computes is the sum of all Increment amounts
\* since the previous ComputeDiff, also when the counter wrapped around
\* once in between (the sum itself fits the counter's width).
C7_DeltaIsSumOfIncrements ==
    (tpc = "idle" /\ hcalls > 0 /\ hexpect <= MaxUint) => hdelta = hexpect

\* C8: when every one of the NTasks tasks has made its MIncs calls
\* Increment(1) before the first ComputeDiff loads the counter, that
\* ComputeDiff computes the delta NTasks * MIncs.
C8_NoIncrementLost ==
    (tpc = "idle" /\ hcalls = 1 /\ ~hbusy) => hdelta = NTasks * MIncs

\* the single ComputeDiff has returned after all tasks finished
C8_Witness ==
    /\ tpc = "idle"
    /\ hcalls = 1
    /\ ~hbusy
    /\ \A t \in Tasks : done[t] = MIncs

\* C9: as long as the counter has not wrapped, the deltas of all ComputeDiff
\* calls so far add up to the counter value the latest call returned: every
\* increment is in the delta of exactly one call.
C9_DeltasAddUp ==
    htotal <= MaxUint => hdeltas = ret.current

\* a third ComputeDiff has loaded the counter, increments arrived before it
\* finished, and the counter has not wrapped
C9_Witness ==
    /\ tpc = "loaded"
    /\ hcalls = 2
    /\ hsum > 0
    /\ hdeltas > 0
    /\ htotal <= MaxUint

RECURSIVE SumSeq(_)
SumSeq(q) == IF q = <<>> THEN 0 ELSE Head(q) + SumSeq(Tail(q))

\* C10: ComputeAvg returns 0 when nothing was added since the previous
\* read-and-reset (or since creation), and otherwise the sum of the values
\* added since then divided by their number; and while nothing is added
\* after a read-and-reset, count and value are 0, so that the next
\* ComputeAvg returns 0.
C10_AverageAndReset ==
    /\ (apc = "idle" /\ hreturns > 0) =>
           IF htaken = <<>>
           THEN avg[1] = 0
           ELSE avg[1] * Len(htaken) = SumSeq(htaken) * avg[2]
    /\ hadded = <<>> => (count = 0 /\ value = 0)

\* a second ComputeAvg has returned the mean of several values that are not
\* all the same
C10_Witness ==
    /\ apc = "idle"
    /\ hreturns = 2
    /\ Len(htaken) >= 2
    /\ \E i, j \in 1..Len(htaken) : htaken[i] # htaken[j]
    /\ hadded = <<>>

\* positions of Add and of ComputeAvg between Lock() and Unlock()
AddInside == {"count", "value", "unlock"}

AvgInside == {"read_count", "read_value", "reset_count", "reset_value", "unlock"}

\* C11: ComputeAvg's read-and-reset of (count, value) is atomic with respect
\* to concurrent Add calls: no Add runs while a ComputeAvg is between Lock
\* and Unlock (nor two Adds at once), whenever the mutex is free count and
\* value are those of the values added since the latest read-and-reset (never
\* one of them reset and the other not), and each added value is in exactly
\* one result: the counts and sums all read-and-resets took, together
\* with what is still in the counter, are the count and the sum of all
\* values added.
C11_ReadAndResetAtomic ==
    /\ Cardinality({t \in Adders : addpc[t] \in AddInside})
           + (IF apc \in AvgInside THEN 1 ELSE 0) <= 1
    /\ lock = "free" =>
           /\ count = Len(hadded)
           /\ value = SumSeq(hadded)
           /\ hresc + count = hallc
           /\ hresv + value = hallv
    /\ \A t \in Adders : addpc[t] = "count" =>
           (count = Len(hadded) /\ value = SumSeq(hadded))
    /\ apc = "unlocked" => (lcount = Len(htaken) /\ lvalue = SumSeq(htaken))

\* a ComputeAvg that took some values holds the mutex between its two
\* resets, after an earlier read-and-reset took other values, while an adder
\* is about to call Add
C11_Witness ==
    /\ apc = "reset_value"
    /\ lcount > 0
    /\ hresc > lcount
    /\ hallv > 0
    /\ \E t \in Adders : addpc[t] = "idle"

(***************************************************************************)
(* Properties of the endpoint registry (SpecRegistry).                     *)
(***************************************************************************)
\* the hosts of the registry that hold at least one endpoint
HostsWithEndpoints == {k \in 1..Len(hosts) : Len(hostURLs[hosts[k]]) > 0}

\* no host name occurs twice in the list
DistinctHosts(list) ==
    \A j, k \in 1..Len(list) : list[j] = list[k] => j = k

\* number of times host h occurs in positions from..to of picks
Occurrences(picks, h, from, to) ==
    Cardinality({k \in from..to : picks[k] = h})

\* C12: over a registry with H hosts that each have at least one endpoint,
\* any 2*H consecutive selections pick every host at least twice, and when
\* H > 1 no two consecutive selections pick the same host.  (hpicks holds the
\* selections made since the registry was last written.)
C12_RoundRobin ==
    LET H == Len(hosts)
    IN  (/\ H > 0
         /\ DistinctHosts(hosts)
         /\ Cardinality(HostsWithEndpoints) = H) =>
            /\ H > 1 => \A k \in 1..(Len(hpicks) - 1) : hpicks[k] # hpicks[k + 1]
            /\ \A from \in 1..(Len(hpicks) - 2 * H + 1) :
                   \A j \in 1..H :
                       Occurrences(hpicks, hosts[j], from, from + 2 * H - 1) >= 2

\* C13: a selection returns ErrorNoURLs exactly when no host of the registry
\* has any endpoint, and otherwise an endpoint of the host the cursor
\* selected; it ends in no other way.  (Stated for the selections during
\* which the registry was not written; sres holds how the selection ended.)
C13_NoURLsIffEmpty ==
    \A s \in Selectors :
        (spc[s] = "done" /\ ~hmut[s]) =>
            /\ sres[s].kind \in {"nourls", "endpoint"}
            /\ sres[s].kind = "nourls" <=> HostsWithEndpoints = {}
            /\ sres[s].kind = "endpoint" =>
                   \E k \in 1..Len(hostURLs[snext[s]]) :
                       hostURLs[snext[s]][k] = sres[s].ep

\* C14: selections do not overlap: when k selections made concurrently have
\* all returned, the cursor has advanced by the number of f.hostCounter++
\* statements they executed (by exactly k when every host has an endpoint).
C14_CursorCountsSelections ==
    (\A s \in Selectors : spc[s] = "idle") => hostCounter = hstores

\* the sequence p is an initial part of the sequence q
IsPrefix(p, q) ==
    /\ Len(p) <= Len(q)
    /\ \A k \in 1..Len(p) : p[k] = q[k]

\* C15: adding endpoints under a host appends them to the endpoints the host
\* already has, which stay in their order, and creates the host only if it
\* is absent: every host name occurs at most once in the host list.
C15_AppendUnderHost ==
    /\ DistinctHosts(hosts)
    /\ (rpc # "idle" /\ rmethod = "PUT") =>
           \A h \in HostNames : IsPrefix(hpre.urls[h], hostURLs[h])

\* the host names of a host list
Names(list) == {list[k] : k \in 1..Len(list)}

\* the registry a request starts from: empty for POST (replace), the
\* registry before the request for PUT (append)
Base == IF rmethod = "POST" THEN [hosts |-> <<>>, urls |-> NoEndpoints] ELSE hpre

\* the lines of the current request that parse without error
Parsed(k) == ~ParseURLArgument(hall[k]).err

\* C16: when a POST request with at least one spec has been handled, the
\* registry holds exactly the hosts and endpoints of the specs of the request
\* that parsed and nothing from before; after a PUT request it holds
\* everything from before and the new ones.
C16_ReplaceOrAppend ==
    rpc = "done" =>
        LET expected == AddArgs(Base, hall)
        IN  /\ Names(hosts) = Names(expected.hosts)
            /\ hostURLs = expected.urls

\* C17: the report has one item per entry: an entry that parses is added to
\* the registry and reported as success, an entry that fails to parse is
\* reported as a failure and adds no host and no endpoint.
C17_ReportPerEntry ==
    rpc = "done" =>
        /\ Len(rreport) = Len(hall)
        /\ \A k \in 1..Len(hall) :
               LET r == ParseURLArgument(hall[k])
               IN  IF ~r.err
                   THEN /\ rreport[k] = "success"
                        /\ r.host \in Names(hosts)
                        /\ \A j \in 1..Len(r.urls) :
                               \E i \in 1..Len(hostURLs[r.host]) :
                                   hostURLs[r.host][i] = r.urls[j]
                   ELSE rreport[k] = "error"
        /\ (\A k \in 1..Len(hall) : ~Parsed(k)) =>
               (hosts = Base.hosts /\ hostURLs = Base.urls)

\* C18: a request (POST or PUT) whose specs all fail to parse leaves the
\* hosts and the endpoints of the registry exactly as they were before the
\* request.  (The handler has no statement that assigns the cursor.)
C18_NoPartialChange ==
    (rpc = "done" /\ \A k \in 1..Len(hall) : ~Parsed(k)) =>
        (hosts = hpre.hosts /\ hostURLs = hpre.urls)

\* C19: a request to /endpoints without a non-blank line and a request to
\* /streams whose num is missing or no integer are answered with 400 and
\* leave the registry, the list of running streams and every stream
\* unchanged: a request either is answered with 400 and changes none of
\* them, or is answered with 200 and holds at least one non-blank line.
C19_RejectedUnchanged ==
    [][nreq' # nreq =>
          \/ /\ rstatus' = 400
             /\ rpc' = "idle"
             /\ UNCHANGED <<hosts, hostURLs, hostCounter, poolVars>>
          \/ /\ rstatus' = 200
             /\ hall' # <<>>]_vars

\* a request was answered with 400 while the registry held a host with an
\* endpoint, and the registry still holds it
C19_Witness ==
    /\ nreq > 0
    /\ rstatus = 400
    /\ rpc = "idle"
    /\ HostsWithEndpoints # {}

\* C20: the response of a /streams request names as previous size the length
\* of the list of running streams immediately before the resize of this
\* request took effect and as new size the length its resize produced, also
\* while other requests to /streams run.
C20_ReportedSizes ==
    \A q \in Requests :
        qresp[q] # NoResponse =>
            /\ qresp[q].prev = hbefore[q]
            /\ qresp[q].new = hafter[q]

Init ==
    /\ InitPool /\ InitCounter /\ InitAvg /\ InitAvgLock /\ InitRegistry /\ InitStreams
    /\ InitParse /\ InitSampler /\ InitOpen

SpecPool == Init /\ [][NextPool]_vars

SpecWorker == Init /\ [][NextWorker]_vars

\* every task and the caller of SetNumberOfStreams keep being scheduled
SpecWorkerFair ==
    /\ Init /\ [][NextWorker]_vars
    /\ \A w \in Slots : WF_vars(Worker(w))
    /\ WF_vars(SetNumberOfStreams(Main))

\* every task keeps being scheduled, a caller inside SetNumberOfStreams
\* keeps running, and a caller that waits for streamsLock gets it when the
\* lock is released again and again (sync.Mutex hands the lock to a waiter
\* that has waited long)
SpecPoolFair ==
    /\ Init /\ [][NextResize]_vars
    /\ \A w \in Slots : WF_vars(Worker(w))
    /\ \A p \in Callers : WF_vars(SetNumberOfStreams(p)) /\ SF_vars(Lock(p))

SpecCounter == Init /\ [][NextCounter]_vars

SpecTasks == Init /\ [][NextTasks]_vars

SpecAvgLock == Init /\ [][NextAvgLock]_vars

SpecSelect == Init /\ [][NextSelect]_vars

SpecRegistry == Init /\ [][NextRegistry]_vars

SpecStreams == Init /\ [][NextStreams]_vars

SpecAvg == Init /\ [][NextAvg]_vars

SpecParse == Init /\ [][NextParse]_vars

SpecSampler == Init /\ [][NextSampler]_vars

SpecOpen == Init /\ [][NextOpen]_vars

=============================================================================
